---- MODULE Spec2Model ----
(***************************************************************************)
(* Model of the API gateway: the three Redis-script rate limiters, the     *)
(* rate-limit / auth / proxy handler chain, the upstream selector with     *)
(* its health checker and connection tracker, and the weighted             *)
(* round-robin balancer.                                                   *)
(***************************************************************************)
EXTENDS Integers, Sequences, FiniteSets, TLC

(***************************************************************************)
(* Bounds of the model.                                                    *)
(***************************************************************************)
MaxTime == 3
MaxCalls == 4
MaxBucket == 2
MaxRate == 2
MaxWindowSize == 2
MaxSkew == 1

(***************************************************************************)
(* Program constants.                                                      *)
(***************************************************************************)
\* time.Second, in time.Duration units (nanoseconds)
Second == 1000000000

VARIABLES
    clock,        \* the store's clock (unix seconds)
    algorithm,    \* cfg.RateLimit.Algorithm
    bucketSize,   \* cfg.RateLimit.BucketSize
    refillRate,   \* cfg.RateLimit.RefillRate
    windowSize,   \* cfg.RateLimit.WindowSize, whole seconds
    tbKey,        \* token bucket hash  <prefix>:<key>
    lbKey,        \* leaky bucket hash  <prefix>:<key>
    swKey,        \* sliding window sorted set <prefix>:<key>
    lastAllow,    \* what the last RateLimiter.Allow call returned
    admits,       \* admits[t]: number of calls with timestamp t answered allowed
    ncalls,       \* number of Allow calls made
    lastTs,       \* timestamp carried by the latest Allow call
    monotone,     \* the call timestamps so far were non-decreasing
    synced,       \* every call so far carried the store's own clock
    callLog,      \* the Allow calls a client made one after the other, with their answers
    authType,     \* cfg.Auth.Type
    rlEnabled,    \* cfg.RateLimit.Enabled
    groupURLs,    \* number of URLs configured for the upstream group "a"
    pc,           \* the handler of the chain the request in hand is at
    req,          \* the request in hand
    resp,         \* the response written so far
    ran,          \* the handlers of the chain that ran for the request, in order
    ctxUserID,    \* gin context value "user_id" ("" when not set)
    emitted,      \* metric increments made for the request
    reqNo,        \* number of requests that have arrived
    decisions,    \* the limiter's answer for each request so far
    tried,        \* the verifiers AuthMiddleware invoked for the request, in order
    rlKey,        \* the key RateLimitMiddleware passed to Allow for the request ("" when none)
    policy,       \* cfg.Proxy.LoadBalancer
    nURLs,        \* len(upstream.URLs); the URLs are 1..nURLs in configured order
    hasProbe,     \* upstream.Health != nil
    weights,      \* upstream.Weights
    healthy,      \* HealthChecker.healthy: "unset" (no entry), "up" or "down"
    probeAt,      \* number of URLs the running checkAll round has probed
    upstreamCurrent, \* upstream.Current
    conns,        \* ConnectionTracker.connections
    wrr,          \* the group's WeightedRoundRobin
    slots,        \* the Router.Proxy calls in progress
    picked,       \* the URLs returned so far, in order
    lastPick,     \* the latest selection, the health map it read, and the URLs
                  \* some selection so far has read as unhealthy
    rrCalls,      \* the Router.roundRobin calls in progress, statement by statement
    lastDone,     \* the latest Router.Proxy call that returned, and what it did
    lastOp,       \* the latest call made on the ConnectionTracker alone, and the counts before it
    callerHdr,    \* c.Request.Header of the request being proxied
    upstreamHdr,  \* req.Header of the upstream request Proxy built from it
    hcAt,         \* where the goroutine running HealthChecker.Start stands
    probeResult,  \* the value checkHealth returned for the URL being probed
    mu,           \* HealthChecker.mu: "free", "writer" or "reader"
    tickC,        \* a tick is waiting in ticker.C
    stopC,        \* hc.stop has been closed
    roundsAfterStop, \* checkAll rounds begun after Stop was called
    roundBefore,  \* the health map when the running checkAll round began
    seen,         \* the URL sets GetHealthyURLs has returned since then
    doneRound,    \* the latest completed round: the map before and after it, and
                  \* the URL sets returned while it ran
    atArrive      \* the cursor, the balancer and the counts when the request in hand arrived

limVars == <<clock, algorithm, bucketSize, refillRate, windowSize, tbKey, lbKey,
             swKey, lastAllow, admits, ncalls, lastTs, monotone, synced, callLog>>

pipeVars == <<authType, rlEnabled, groupURLs, pc, req, resp, ran, ctxUserID,
              emitted, reqNo, decisions, tried, rlKey>>

hcVars == <<hcAt, probeResult, mu, tickC, stopC, roundsAfterStop, roundBefore, seen,
            doneRound>>

selVars == <<policy, nURLs, hasProbe, weights, healthy, probeAt, upstreamCurrent, conns,
             wrr, slots, picked, lastPick, rrCalls, lastDone, lastOp,
             callerHdr, upstreamHdr, hcVars, atArrive>>

vars == <<limVars, pipeVars, selVars>>

\* the elements of a list
Range(q) == {q[i] : i \in 1..Len(q)}

Min(a, b) == IF a < b THEN a ELSE b
Max(a, b) == IF a > b THEN a ELSE b

\* Lua math.ceil(a / b) for b > 0
LuaCeilDiv(a, b) == -((-a) \div b)

Algorithms == {"token_bucket", "leaky_bucket", "sliding_window"}

(***************************************************************************)
(* The TTL argument.  Go computes                                          *)
(*   int(time.Duration(size) * time.Second / time.Duration(rate))          *)
(* which is a count of nanoseconds; it is handed to EXPIRE as seconds.     *)
(* The value is kept as <<hi, lo>> with value = hi * Second + lo.          *)
(***************************************************************************)
DurationQuot(size, rate) ==
    LET q == size \div rate
        r == size % rate
        a == Second \div rate
        b == Second % rate
    IN <<q, r * a + (r * b) \div rate>>

TokenBucketWindow(B, R) == DurationQuot(B, R)

LeakyBucketWindow(C, L) ==
    IF L > 0
    THEN LET w == DurationQuot(C, L)
         IN IF w[1] <= 0 /\ w[2] <= 0 THEN <<0, 1>> ELSE w
    ELSE <<0, 1>>

\* a key that outlives the window
SlidingWindowSecondsDoubled(W) == <<0, 2 * W>>

\* int(sw.windowSize.Seconds())
SlidingWindowSeconds(W) == <<0, W>>

(***************************************************************************)
(* Redis keys.  A key with a TTL disappears once the TTL has elapsed on    *)
(* the store's clock.                                                      *)
(***************************************************************************)
NoTTL == <<0, 0>>

AbsentHash == [exists |-> FALSE, val |-> 0, stamp |-> 0, setAt |-> 0, ttl |-> NoTTL]
AbsentZSet == [exists |-> FALSE, members |-> {}, setAt |-> 0, ttl |-> NoTTL]

\* elapsed is far below Second in every run of the model, so a TTL with a
\* non-zero high part has never run out
Expired(key, clk) ==
    /\ key.ttl # NoTTL
    /\ key.ttl[1] = 0
    /\ clk - key.setAt >= key.ttl[2]

Live(key, clk) == key.exists /\ ~Expired(key, clk)

\* EXPIRE key ttl: a non-positive ttl deletes the key
ExpireHash(key, ttl, clk) ==
    IF ttl[1] <= 0 /\ ttl[2] <= 0 THEN AbsentHash
    ELSE [key EXCEPT !.setAt = clk, !.ttl = ttl]

ExpireZSet(key, ttl, clk) ==
    IF (ttl[1] <= 0 /\ ttl[2] <= 0) \/ ~key.exists THEN AbsentZSet
    ELSE [key EXCEPT !.setAt = clk, !.ttl = ttl]

(***************************************************************************)
(* The three Lua scripts.  Each takes the key as stored, the script        *)
(* arguments and the store's clock, and yields the key as left behind and  *)
(* the three-element reply {allowed, remaining, reset}.                    *)
(***************************************************************************)
\* a refill that forgets the cap at the bucket size
RefillUncapped(tokens, elapsed, refill_rate, bucket_size) ==
    IF elapsed > 0 THEN tokens + elapsed * refill_rate ELSE tokens

\* a bucket that is never refilled
RefillNever(tokens, elapsed, refill_rate, bucket_size) == tokens

\* a refill that counts the seconds between the two timestamps either way
RefillEitherWay(tokens, elapsed, refill_rate, bucket_size) ==
    IF elapsed # 0
    THEN Min(bucket_size, tokens + (IF elapsed > 0 THEN elapsed ELSE -elapsed) * refill_rate)
    ELSE tokens

\* tokens after the refill for the elapsed seconds; math.floor of the
\* integer product elapsed * refill_rate is that product
Refill(tokens, elapsed, refill_rate, bucket_size) ==
    IF elapsed > 0
    THEN Min(bucket_size, tokens + elapsed * refill_rate)
    ELSE tokens

TokenBucketScript(key, bucket_size, refill_rate, now, window, clk) ==
    LET live == Live(key, clk)
        tokens0 == IF live THEN key.val ELSE bucket_size
        last0 == IF live THEN key.stamp ELSE now
        elapsed == now - last0
        tokens1 == Refill(tokens0, elapsed, refill_rate, bucket_size)
        last1 == IF elapsed > 0 THEN now ELSE last0
    IN IF tokens1 >= 1
       THEN [key |-> ExpireHash([exists |-> TRUE, val |-> tokens1 - 1, stamp |-> last1,
                                 setAt |-> 0, ttl |-> NoTTL], window, clk),
             reply |-> <<1, tokens1 - 1,
                         LuaCeilDiv(bucket_size - (tokens1 - 1), refill_rate)>>]
       ELSE [key |-> ExpireHash([exists |-> TRUE, val |-> tokens1, stamp |-> last1,
                                 setAt |-> 0, ttl |-> NoTTL], window, clk),
             reply |-> <<0, tokens1, LuaCeilDiv(1 - tokens1, refill_rate)>>]

\* a leak without the floor at the empty bucket
LeakUnfloored(level, elapsed, leak_rate) ==
    IF elapsed > 0 THEN level - elapsed * leak_rate ELSE level

\* level after the leak for the elapsed seconds
Leak(level, elapsed, leak_rate) ==
    IF elapsed > 0 THEN Max(0, level - elapsed * leak_rate) ELSE level

\* an admission test that is off by one
HasSpaceInclusive(level, capacity) == level <= capacity

HasSpace(level, capacity) == level < capacity

LeakyBucketScript(key, capacity, leak_rate, now, window, clk) ==
    LET live == Live(key, clk)
        level0 == IF live THEN key.val ELSE 0
        last0 == IF live THEN key.stamp ELSE now
        elapsed == now - last0
        level1 == Leak(level0, elapsed, leak_rate)
        last1 == IF elapsed > 0 THEN now ELSE last0
    IN IF HasSpace(level1, capacity)
       THEN [key |-> ExpireHash([exists |-> TRUE, val |-> level1 + 1, stamp |-> last1,
                                 setAt |-> 0, ttl |-> NoTTL], window, clk),
             reply |-> <<1, capacity - (level1 + 1),
                         LuaCeilDiv(capacity - (level1 + 1), leak_rate)>>]
       ELSE [key |-> ExpireHash([exists |-> TRUE, val |-> level1, stamp |-> last1,
                                 setAt |-> 0, ttl |-> NoTTL], window, clk),
             reply |-> <<0, capacity - level1,
                         LuaCeilDiv(level1 - capacity + 1, leak_rate)>>]

\* the smallest member of a non-empty set of scores (ZRANGE key 0 0)
Oldest(S) == CHOOSE x \in S : \A y \in S : x <= y

SlidingWindowScript(key, limit, window_start, window_end, window_size, clk) ==
    LET members0 == IF Live(key, clk) THEN key.members ELSE {}
        \* ZREMRANGEBYSCORE key 0 window_start
        members1 == {m \in members0 : ~(0 <= m /\ m <= window_start)}
        kept == IF members1 = {} THEN AbsentZSet
                ELSE IF Live(key, clk) THEN [key EXCEPT !.members = members1]
                ELSE AbsentZSet
        current == Cardinality(members1)
    IN IF current < limit
       THEN \* ZADD key window_end window_end: the member is the timestamp
            [key |-> ExpireZSet([exists |-> TRUE,
                                 members |-> members1 \cup {window_end},
                                 setAt |-> kept.setAt, ttl |-> kept.ttl],
                                SlidingWindowSeconds(window_size), clk),
             reply |-> <<1, limit - current - 1, window_size>>]
       ELSE [key |-> kept,
             reply |-> <<0, 0,
                         IF members1 # {}
                         THEN window_start + window_size - Oldest(members1)
                         ELSE 0>>]

(***************************************************************************)
(* RateLimiter.Allow of the three Go types: run the script, then parse     *)
(* the reply into (allowed, *LimitInfo, error).  outcome is what the       *)
(* round trip to the store does: "ok", "down" (the script never ran) or    *)
(* "lost" (the script ran and the reply did not arrive).                   *)
(***************************************************************************)
StoreOutcomes == {"ok", "down", "lost"}

NilInfo == [Allowed |-> FALSE, Remaining |-> 0, Limit |-> 0, ResetIn |-> 0]

ErrorResult == [err |-> TRUE, allowed |-> FALSE, hasInfo |-> FALSE, info |-> NilInfo]

ParseReply(reply, limit) ==
    [err |-> FALSE,
     allowed |-> (reply[1] = 1),
     hasInfo |-> TRUE,
     info |-> [Allowed |-> (reply[1] = 1), Remaining |-> reply[2],
               Limit |-> limit, ResetIn |-> reply[3]]]

TokenBucketAllow(key, B, R, now, clk, outcome) ==
    LET run == TokenBucketScript(key, B, R, now, TokenBucketWindow(B, R), clk)
    IN [key |-> IF outcome = "down" THEN key ELSE run.key,
        result |-> IF outcome = "ok" THEN ParseReply(run.reply, B) ELSE ErrorResult]

LeakyBucketAllow(key, C, L, now, clk, outcome) ==
    LET run == LeakyBucketScript(key, C, L, now, LeakyBucketWindow(C, L), clk)
    IN [key |-> IF outcome = "down" THEN key ELSE run.key,
        result |-> IF outcome = "ok" THEN ParseReply(run.reply, C) ELSE ErrorResult]

SlidingWindowAllow(key, N, W, now, clk, outcome) ==
    LET run == SlidingWindowScript(key, N, now - W, now, W, clk)
    IN [key |-> IF outcome = "down" THEN key ELSE run.key,
        result |-> IF outcome = "ok" THEN ParseReply(run.reply, N) ELSE ErrorResult]

(***************************************************************************)
(* Requests, responses and metrics of the handler chain.                   *)
(***************************************************************************)
MaxRequests == 3
MaxPipeTime == 1

\* Authorization header: absent, a token the HMAC verifier accepts, a token
\* the OIDC verifier accepts, a token neither accepts
Tokens == {"none", "jwt", "oidc", "bad"}
AuthTypes == {"jwt", "oidc", "both", "mock"}

\* the *path parameter of the /v1 route, as a sequence of characters;
\* "a" is the configured upstream group, "b" is not configured
Paths == {<<"/">>, <<"/", "a", "/", "x">>, <<"/", "b", "/", "x">>}

\* the routes setupRouter registers on the engine itself, and the /v1 group
RootRoutes == {"/health", "/ready", "/metrics"}

\* cfg.Auth.SkipAuthPaths
SkipAuthPaths == {"/health", "/ready", "/metrics"}

NoRequest == [token |-> "none", path |-> <<"/">>, route |-> "/v1"]

HeaderNames == {"X-RateLimit-Limit", "X-RateLimit-Remaining", "X-RateLimit-Reset",
                "Retry-After"}

NoHeaders == [names |-> {}, val |-> [h \in HeaderNames |-> 0]]

\* gin's writer reports 200 until a status is written
NoResponse == [status |-> 200, written |-> FALSE, aborted |-> FALSE, hdr |-> NoHeaders]

MetricNames == {"rate_limit_hits_total", "auth_failures_total:missing_token",
                "auth_failures_total:invalid_token", "upstream_requests_total:error",
                "upstream_requests_total:status", "http_requests_total:200",
                "http_request_duration_seconds"}

NoMetrics == [m \in MetricNames |-> 0]

Inc(e, m) == [e EXCEPT ![m] = @ + 1]

\* headers that leave Retry-After out
GetHeadersNoRetryAfter(li, now) ==
    [names |-> {"X-RateLimit-Limit", "X-RateLimit-Remaining", "X-RateLimit-Reset"},
     val |-> [h \in HeaderNames |->
                CASE h = "X-RateLimit-Limit" -> li.Limit
                  [] h = "X-RateLimit-Remaining" -> li.Remaining
                  [] h = "X-RateLimit-Reset" -> now + li.ResetIn
                  [] h = "Retry-After" -> 0]]

\* LimitInfo.GetHeaders at unix second now
GetHeaders(li, now) ==
    [names |-> {"X-RateLimit-Limit", "X-RateLimit-Remaining", "X-RateLimit-Reset"}
               \cup (IF ~li.Allowed THEN {"Retry-After"} ELSE {}),
     val |-> [h \in HeaderNames |->
                CASE h = "X-RateLimit-Limit" -> li.Limit
                  [] h = "X-RateLimit-Remaining" -> li.Remaining
                  [] h = "X-RateLimit-Reset" -> now + li.ResetIn
                  [] h = "Retry-After" -> li.ResetIn]]

\* c.Header(k, v) for every header of hs
SetHeaders(hdr, hs) ==
    [names |-> hdr.names \cup hs.names,
     val |-> [h \in HeaderNames |-> IF h \in hs.names THEN hs.val[h] ELSE hdr.val[h]]]

\* the empty header value; every other value is a number
EmptyValue == -1

\* the headers of these four names an upstream response can carry: none, a
\* Retry-After of its own, or an X-RateLimit-Limit line with an empty value
UpstreamResponseHeaders ==
    {NoHeaders,
     [names |-> {"Retry-After"}, val |-> [NoHeaders.val EXCEPT !["Retry-After"] = 7]],
     [names |-> {"X-RateLimit-Limit"},
      val |-> [NoHeaders.val EXCEPT !["X-RateLimit-Limit"] = EmptyValue]]}

\* c.Header(key, value) for every header of the upstream response: gin
\* deletes the header when the value is empty and sets it otherwise
CopyResponseHeaders(hdr, hs) ==
    LET deleted == {h \in hs.names : hs.val[h] = EmptyValue}
    IN [names |-> (hdr.names \cup hs.names) \ deleted,
        val |-> [h \in HeaderNames |->
                   IF h \in deleted THEN 0
                   ELSE IF h \in hs.names THEN hs.val[h]
                   ELSE hdr.val[h]]]

\* c.JSON(status, ...): the status is written once
WriteStatus(r, status) ==
    IF r.written THEN r ELSE [r EXCEPT !.status = status, !.written = TRUE]

\* c.ClientIP(): the requests of the model come from one address
ClientIP == "10.0.0.1"

\* defaultKeyFunc, given the gin context value "user_id"
DefaultKeyFunc(userID) == IF userID # "" THEN "user:" \o userID ELSE "ip:" \o ClientIP


(***************************************************************************)
(* The weighted round-robin balancer.  URLs are numbered 1..n in the       *)
(* group's configured order; 0 stands for the empty string.                *)
(***************************************************************************)
NoBalancer == [exists |-> FALSE, urls |-> <<>>, weights |-> <<>>, current |-> <<>>]

NoPick == [called |-> FALSE, url |-> 0, up |-> {}, down |-> {}, fell |-> {}]

\* no Proxy call has returned yet
NoneDone == [result |-> "none", status |-> 0, errors |-> 0, statuses |-> 0]

\* no call has been made on the tracker
NoOp == [op |-> "none", url |-> 0, prev |-> <<>>]

\* the headers a request can carry: the eight names Proxy deletes and
\* three it does not
HopByHop == {"Connection", "Keep-Alive", "Proxy-Authenticate", "Proxy-Authorization",
             "Te", "Trailers", "Transfer-Encoding", "Upgrade"}
HdrKeys == HopByHop \cup {"Accept", "Authorization", "X-Request-Id"}

\* http.Header: the values of each key in order, <<>> for a key not in the map
EmptyHeader == [k \in HdrKeys |-> <<>>]

\* no upstream request has been built
NoUpstreamRequest == [built |-> FALSE, header |-> EmptyHeader]

\* NewWeightedRoundRobin: copy(current, weights) fills the first
\* min(len(current), len(weights)) entries, the rest stay 0
NewWeightedRoundRobin(urls, ws) ==
    [exists |-> TRUE,
     urls |-> urls,
     weights |-> ws,
     current |-> [i \in 1..Len(urls) |-> IF i <= Len(ws) THEN ws[i] ELSE 0]]

RECURSIVE SumSeq(_)
SumSeq(q) == IF q = <<>> THEN 0 ELSE Head(q) + SumSeq(Tail(q))

RECURSIVE MaxScanLast(_, _, _, _)
\* a scan that lets a later equal weight win
MaxScanLast(cur, i, maxWeight, maxIndex) ==
    IF i > Len(cur) THEN maxIndex
    ELSE IF cur[i] >= maxWeight /\ cur[i] > -1
         THEN MaxScanLast(cur, i + 1, cur[i], i)
         ELSE MaxScanLast(cur, i + 1, maxWeight, maxIndex)

RECURSIVE MaxScan(_, _, _, _)
\* the loop "if wrr.current[i] > maxWeight" from index i on
MaxScan(cur, i, maxWeight, maxIndex) ==
    IF i > Len(cur) THEN maxIndex
    ELSE IF cur[i] > maxWeight
         THEN MaxScan(cur, i + 1, cur[i], i)
         ELSE MaxScan(cur, i + 1, maxWeight, maxIndex)

MaxIndexLast(cur) == MaxScanLast(cur, 1, -1, 1)

\* index of the maximum current weight: maxWeight := -1; maxIndex := 0
MaxIndex(cur) == MaxScan(cur, 1, -1, 1)

\* a Next that leaves the chosen entry as it is
WRRNextNotLowered(w) ==
    IF Len(w.urls) = 0 THEN [wrr |-> w, url |-> 0]
    ELSE LET maxIndex == MaxIndex(w.current)
             raised == [i \in 1..Len(w.current) |-> w.current[i] + w.weights[i]]
         IN [wrr |-> [w EXCEPT !.current = raised], url |-> w.urls[maxIndex]]

\* WeightedRoundRobin.Next: the balancer afterwards and the URL returned
WRRNext(w) ==
    IF Len(w.urls) = 0 THEN [wrr |-> w, url |-> 0]
    ELSE LET maxIndex == MaxIndex(w.current)
             totalWeight == SumSeq(w.weights)
             lowered == [w.current EXCEPT ![maxIndex] = @ - totalWeight]
             raised == [i \in 1..Len(lowered) |-> lowered[i] + w.weights[i]]
         IN [wrr |-> [w EXCEPT !.current = raised], url |-> w.urls[maxIndex]]

(***************************************************************************)
(* The limiter on its own: any number of gateway instances call Allow on   *)
(* one key, each with the unix second of its own clock, which may lag the  *)
(* store's clock by up to MaxSkew.                                         *)
(***************************************************************************)
Times == 0..MaxTime

NoCall == [called |-> FALSE, ts |-> 0, err |-> FALSE, allowed |-> FALSE,
           hasInfo |-> FALSE, info |-> NilInfo]

Called(result, ts) ==
    [called |-> TRUE, ts |-> ts, err |-> result.err, allowed |-> result.allowed,
     hasInfo |-> result.hasInfo, info |-> result.info]

LimiterInit ==
    /\ clock = 0
    /\ algorithm \in Algorithms
    /\ bucketSize \in 1..MaxBucket
    /\ refillRate \in 1..MaxRate
    /\ windowSize \in 1..MaxWindowSize
    \* the sliding window reads no rate, the buckets read no window size
    /\ algorithm = "sliding_window" => refillRate = 1
    /\ algorithm # "sliding_window" => windowSize = 1
    /\ tbKey = AbsentHash
    /\ lbKey = AbsentHash
    /\ swKey = AbsentZSet
    /\ lastAllow = NoCall
    /\ admits = [t \in Times |-> 0]
    /\ ncalls = 0
    /\ lastTs = 0
    /\ monotone = TRUE
    /\ synced = TRUE
    /\ callLog = <<>>

Record(result, ts) ==
    /\ lastAllow' = Called(result, ts)
    /\ admits' = IF result.allowed THEN [admits EXCEPT ![ts] = @ + 1] ELSE admits
    /\ ncalls' = ncalls + 1
    /\ lastTs' = ts
    /\ monotone' = (monotone /\ (ncalls = 0 \/ lastTs <= ts))
    /\ synced' = (synced /\ ts = clock)

CallTimes == {t \in Times : t <= clock /\ clock - t <= MaxSkew}

TokenBucketCall ==
    /\ algorithm = "token_bucket"
    /\ ncalls < MaxCalls
    /\ \E ts \in CallTimes, outcome \in StoreOutcomes :
          LET r == TokenBucketAllow(tbKey, bucketSize, refillRate, ts, clock, outcome)
          IN /\ tbKey' = r.key
             /\ Record(r.result, ts)
    /\ UNCHANGED <<clock, algorithm, bucketSize, refillRate, windowSize, lbKey, swKey,
                   callLog>>

LeakyBucketCall ==
    /\ algorithm = "leaky_bucket"
    /\ ncalls < MaxCalls
    /\ \E ts \in CallTimes, outcome \in StoreOutcomes :
          LET r == LeakyBucketAllow(lbKey, bucketSize, refillRate, ts, clock, outcome)
          IN /\ lbKey' = r.key
             /\ Record(r.result, ts)
    /\ UNCHANGED <<clock, algorithm, bucketSize, refillRate, windowSize, tbKey, swKey,
                   callLog>>

SlidingWindowCall ==
    /\ algorithm = "sliding_window"
    /\ ncalls < MaxCalls
    /\ \E ts \in CallTimes, outcome \in StoreOutcomes :
          LET r == SlidingWindowAllow(swKey, bucketSize, windowSize, ts, clock, outcome)
          IN /\ swKey' = r.key
             /\ Record(r.result, ts)
    /\ UNCHANGED <<clock, algorithm, bucketSize, refillRate, windowSize, tbKey, lbKey,
                   callLog>>

Tick ==
    /\ clock < MaxTime
    /\ clock' = clock + 1
    /\ UNCHANGED <<algorithm, bucketSize, refillRate, windowSize, tbKey, lbKey, swKey,
                   lastAllow, admits, ncalls, lastTs, monotone, synced, callLog>>

LimiterNext ==
    \/ TokenBucketCall
    \/ LeakyBucketCall
    \/ SlidingWindowCall
    \/ Tick

\* the handler chain stands still while the limiter is exercised alone
PipeIdle ==
    /\ authType = "jwt"
    /\ rlEnabled = TRUE
    /\ groupURLs = 1
    /\ pc = "idle"
    /\ req = NoRequest
    /\ resp = NoResponse
    /\ ran = <<>>
    /\ ctxUserID = ""
    /\ emitted = NoMetrics
    /\ reqNo = 0
    /\ decisions = <<>>
    /\ tried = <<>>
    /\ rlKey = ""

\* no round of the health checker has completed
NoRound == [complete |-> FALSE, before |-> <<>>, after |-> <<>>, seen |-> {}]

\* no request has arrived
NoSnapshot == [current |-> 0, wrr |-> NoBalancer, conns |-> <<>>]

\* the goroutine of the health checker is left out of the picture
HcIdle ==
    /\ hcAt = "none"
    /\ probeResult = FALSE
    /\ mu = "free"
    /\ tickC = FALSE
    /\ stopC = FALSE
    /\ roundsAfterStop = 0
    /\ roundBefore = <<>>
    /\ seen = {}
    /\ doneRound = NoRound

\* the selector stands still while the limiter or the chain is exercised
SelIdle ==
    /\ policy = "round_robin"
    /\ nURLs = 0
    /\ hasProbe = FALSE
    /\ weights = <<>>
    /\ healthy = <<>>
    /\ probeAt = 0
    /\ upstreamCurrent = 0
    /\ conns = <<>>
    /\ wrr = NoBalancer
    /\ slots = <<>>
    /\ picked = <<>>
    /\ lastPick = NoPick
    /\ rrCalls = <<>>
    /\ lastDone = NoneDone
    /\ lastOp = NoOp
    /\ callerHdr = EmptyHeader
    /\ upstreamHdr = NoUpstreamRequest
    /\ HcIdle
    /\ atArrive = NoSnapshot

\* the limiter stands still while the selector is exercised
LimIdle ==
    /\ clock = 0
    /\ algorithm = "token_bucket"
    /\ bucketSize = 1
    /\ refillRate = 1
    /\ windowSize = 1
    /\ tbKey = AbsentHash
    /\ lbKey = AbsentHash
    /\ swKey = AbsentZSet
    /\ lastAllow = NoCall
    /\ admits = [t \in Times |-> 0]
    /\ ncalls = 0
    /\ lastTs = 0
    /\ monotone = TRUE
    /\ synced = TRUE
    /\ callLog = <<>>

LimiterAloneInit == LimiterInit /\ PipeIdle /\ SelIdle

LimiterAloneNext ==
    \/ TokenBucketCall /\ UNCHANGED <<pipeVars, selVars>>
    \/ LeakyBucketCall /\ UNCHANGED <<pipeVars, selVars>>
    \/ SlidingWindowCall /\ UNCHANGED <<pipeVars, selVars>>
    \/ Tick /\ UNCHANGED <<pipeVars, selVars>>

SpecLimiter == LimiterAloneInit /\ [][LimiterAloneNext]_vars

(***************************************************************************)
(* A client of one key whose calls are all answered: each Allow call is    *)
(* logged with the unix second it carried, the store's clock at the call   *)
(* and the LimitInfo returned.                                             *)
(***************************************************************************)
Logged(result, ts, at) ==
    [ts |-> ts, at |-> at, allowed |-> result.allowed,
     remaining |-> result.info.Remaining, resetIn |-> result.info.ResetIn]

\* RateLimiter.Allow of the configured limiter, the store answering
AnsweredAllow ==
    /\ ncalls < MaxCalls
    /\ \E ts \in CallTimes :
          LET r == CASE algorithm = "token_bucket" ->
                          TokenBucketAllow(tbKey, bucketSize, refillRate, ts, clock, "ok")
                     [] algorithm = "leaky_bucket" ->
                          LeakyBucketAllow(lbKey, bucketSize, refillRate, ts, clock, "ok")
                     [] algorithm = "sliding_window" ->
                          SlidingWindowAllow(swKey, bucketSize, windowSize, ts, clock, "ok")
          IN /\ tbKey' = IF algorithm = "token_bucket" THEN r.key ELSE tbKey
             /\ lbKey' = IF algorithm = "leaky_bucket" THEN r.key ELSE lbKey
             /\ swKey' = IF algorithm = "sliding_window" THEN r.key ELSE swKey
             /\ Record(r.result, ts)
             /\ callLog' = Append(callLog, Logged(r.result, ts, clock))
    /\ UNCHANGED <<clock, algorithm, bucketSize, refillRate, windowSize>>

TripsNext ==
    \/ AnsweredAllow /\ UNCHANGED <<pipeVars, selVars>>
    \/ Tick /\ UNCHANGED <<pipeVars, selVars>>

SpecTrips == LimiterAloneInit /\ [][TripsNext]_vars

(***************************************************************************)
(* Claims about the limiters.                                              *)
(***************************************************************************)
RECURSIVE Admitted(_, _)
\* number of calls answered allowed=true whose timestamp lies in a..b
Admitted(a, b) ==
    IF a > b \/ a > MaxTime THEN 0
    ELSE admits[a] + Admitted(a + 1, b)

Denied == lastAllow.called /\ ~lastAllow.err /\ ~lastAllow.allowed

\* C1: sliding window: in any W consecutive seconds at most N calls are
\* answered allowed=true, also when several calls carry the same unix second
\* (stated here for instances whose clocks all agree with the store's).
C1_SlidingWindowBound ==
    (algorithm = "sliding_window" /\ synced) =>
        \A a \in Times : Admitted(a, a + windowSize - 1) <= bucketSize

\* C2: token bucket: with non-decreasing call timestamps, the calls answered
\* allowed=true within any interval of W seconds number at most B + R*W.
C2_TokenBucketBound ==
    (algorithm = "token_bucket" /\ monotone) =>
        \A a \in Times, W \in 0..MaxTime :
            Admitted(a, a + W) <= bucketSize + refillRate * W

C2_Witness ==
    /\ algorithm = "token_bucket"
    /\ monotone
    /\ Denied
    /\ \E a \in Times, W \in 1..MaxTime :
          Admitted(a, a + W) = bucketSize + refillRate * W

\* C3: leaky bucket: with non-decreasing call timestamps, the calls answered
\* allowed=true within any interval of W seconds number at most C + L*W.
C3_LeakyBucketBound ==
    (algorithm = "leaky_bucket" /\ monotone) =>
        \A a \in Times, W \in 0..MaxTime :
            Admitted(a, a + W) <= bucketSize + refillRate * W

C3_Witness ==
    /\ algorithm = "leaky_bucket"
    /\ monotone
    /\ Denied
    /\ \E a \in Times, W \in 1..MaxTime :
          Admitted(a, a + W) = bucketSize + refillRate * W

\* C7: every LimitInfo returned with allowed=false has remaining = 0 and
\* reset_in > 0, for each of the three limiters.
C7_DeniedInfo ==
    Denied => (lastAllow.info.Remaining = 0 /\ lastAllow.info.ResetIn > 0)

(***************************************************************************)
(* setupRouter: the handlers of the /v1 group in the order they are        *)
(* installed with v1.Use, followed by the route's handler.                 *)
(***************************************************************************)
V1Chain(rateLimitInstalled) ==
    (IF rateLimitInstalled THEN <<"ratelimit">> ELSE <<>>) \o <<"auth", "proxy">>

\* the order in which an authentication-first chain would run
V1ChainAuthFirst(rateLimitInstalled) ==
    <<"auth">> \o (IF rateLimitInstalled THEN <<"ratelimit">> ELSE <<>>) \o <<"proxy">>

Chain == V1Chain(rlEnabled)

\* a router whose middleware is installed with router.Use, ahead of every route
RouteChainGlobalUse(route) ==
    IF route = "/v1" THEN Chain
    ELSE SubSeq(Chain, 1, Len(Chain) - 1) \o <<"endpoint">>

\* the handlers gin runs for a request matched to the route: the /v1 group
\* carries the middleware, /health, /ready and /metrics only their handler
RouteChain(route) ==
    IF route = "/v1" THEN Chain ELSE <<"endpoint">>

IndexOf(seq, x) == CHOOSE i \in 1..Len(seq) : seq[i] = x

\* c.Next(): the handler after h in the chain of the request in hand,
\* "done" after the last
NextHandler(h) ==
    LET chain == RouteChain(req.route)
        i == IndexOf(chain, h)
    IN IF i < Len(chain) THEN chain[i + 1] ELSE "done"

PipeInit ==
    /\ authType \in AuthTypes
    /\ rlEnabled \in BOOLEAN
    /\ groupURLs \in 0..1
    /\ pc = "idle"
    /\ req = NoRequest
    /\ resp = NoResponse
    /\ ran = <<>>
    /\ ctxUserID = ""
    /\ emitted = NoMetrics
    /\ reqNo = 0
    /\ decisions = <<>>
    /\ tried = <<>>
    /\ rlKey = ""

limCfg == <<algorithm, bucketSize, refillRate, windowSize>>
limHistory == <<admits, ncalls, lastTs, monotone, synced, callLog>>
limState == <<tbKey, lbKey, swKey, lastAllow, limHistory>>
pipeCfg == <<authType, rlEnabled, groupURLs>>

\* a request arrives on the /v1 route
Arrive ==
    /\ pc \in {"idle", "done"}
    /\ reqNo < MaxRequests
    /\ \E t \in Tokens, p \in Paths : req' = [token |-> t, path |-> p, route |-> "/v1"]
    /\ pc' = RouteChain("/v1")[1]
    /\ resp' = NoResponse
    /\ ran' = <<>>
    /\ ctxUserID' = ""
    /\ emitted' = NoMetrics
    /\ reqNo' = reqNo + 1
    /\ tried' = <<>>
    /\ rlKey' = ""
    /\ UNCHANGED <<clock, limCfg, limState, pipeCfg, decisions>>

\* RateLimiter.Allow of the configured limiter, on the one key in use
LimiterAllow(ts, outcome) ==
    /\ CASE algorithm = "token_bucket" ->
                LET r == TokenBucketAllow(tbKey, bucketSize, refillRate, ts, clock, outcome)
                IN /\ tbKey' = r.key
                   /\ lastAllow' = Called(r.result, ts)
                   /\ UNCHANGED <<lbKey, swKey>>
          [] algorithm = "leaky_bucket" ->
                LET r == LeakyBucketAllow(lbKey, bucketSize, refillRate, ts, clock, outcome)
                IN /\ lbKey' = r.key
                   /\ lastAllow' = Called(r.result, ts)
                   /\ UNCHANGED <<tbKey, swKey>>
          [] algorithm = "sliding_window" ->
                LET r == SlidingWindowAllow(swKey, bucketSize, windowSize, ts, clock, outcome)
                IN /\ swKey' = r.key
                   /\ lastAllow' = Called(r.result, ts)
                   /\ UNCHANGED <<tbKey, lbKey>>
    /\ UNCHANGED limHistory

\* a middleware that turns a limiter error into a rejection
RateLimitVerdictFailClosed(result) ==
    IF result.err \/ ~result.allowed THEN "reject" ELSE "admit"

\* what RateLimitMiddleware does with (allowed, limitInfo, err):
\* "pass" on without headers, "reject" with 429, or "admit" with headers
RateLimitVerdict(result) ==
    IF result.err THEN "pass"
    ELSE IF ~result.allowed THEN "reject"
    ELSE "admit"

\* RateLimitMiddleware.Middleware (installed only when rate limiting is enabled)
RateLimitHandler ==
    /\ pc = "ratelimit"
    /\ ran' = Append(ran, "ratelimit")
    /\ rlKey' = DefaultKeyFunc(ctxUserID)
    /\ \E outcome \in StoreOutcomes :
          /\ LimiterAllow(clock, outcome)
          /\ LET verdict == RateLimitVerdict(lastAllow')
                 headers == GetHeaders(lastAllow'.info, clock)
             IN CASE verdict = "pass" ->
                       /\ pc' = NextHandler("ratelimit")
                       /\ UNCHANGED <<resp, emitted>>
                  [] verdict = "reject" ->
                       /\ emitted' = Inc(emitted, "rate_limit_hits_total")
                       /\ resp' = [WriteStatus([resp EXCEPT !.hdr = SetHeaders(@, headers)],
                                               429)
                                   EXCEPT !.aborted = TRUE]
                       /\ pc' = "done"
                  [] verdict = "admit" ->
                       /\ resp' = [resp EXCEPT !.hdr = SetHeaders(@, headers)]
                       /\ pc' = NextHandler("ratelimit")
                       /\ UNCHANGED emitted
          /\ decisions' = Append(decisions,
                                 IF lastAllow'.err THEN "error"
                                 ELSE IF lastAllow'.allowed THEN "allowed"
                                 ELSE "denied")
    /\ UNCHANGED <<clock, limCfg, pipeCfg, req, ctxUserID, reqNo, tried>>

\* AuthMiddleware.verifyJWT / verifyOIDC: TRUE when the verifier yields claims
VerifyJWT(type, token) == type \in {"jwt", "both"} /\ token = "jwt"
VerifyOIDC(type, token) == type \in {"oidc", "both"} /\ token = "oidc"

\* a switch that under "both" invokes the OIDC verifier first
VerifiersTriedOIDCFirst(type, token) ==
    CASE type = "jwt" -> <<"jwt">>
      [] type = "oidc" -> <<"oidc">>
      [] type = "both" -> IF VerifyOIDC(type, token) THEN <<"oidc">> ELSE <<"oidc", "jwt">>
      [] type = "mock" -> <<>>

\* the switch on config.Type: the verifiers it invokes, in order
VerifiersTried(type, token) ==
    CASE type = "jwt" -> <<"jwt">>
      [] type = "oidc" -> <<"oidc">>
      [] type = "both" -> IF VerifyJWT(type, token) THEN <<"jwt">> ELSE <<"jwt", "oidc">>
      [] type = "mock" -> <<>>

\* the switch on config.Type: TRUE when err = nil
Verified(type, token) ==
    CASE type = "jwt" -> VerifyJWT(type, token)
      [] type = "oidc" -> VerifyOIDC(type, token)
      [] type = "both" -> VerifyJWT(type, token) \/ VerifyOIDC(type, token)
      [] type = "mock" -> TRUE

\* claims.GetUserID()
ClaimsUserID(type, token) == IF type = "mock" THEN "mock-user-id" ELSE "user-1"

\* strings.HasPrefix(c.Request.URL.Path, skipPath) for some skip path: the
\* URL path begins with the route, and /v1 begins with none of the skip paths
ShouldSkipAuth(route) == route \in SkipAuthPaths

\* AuthMiddleware.Middleware
AuthHandler ==
    /\ pc = "auth"
    /\ ran' = Append(ran, "auth")
    /\ IF ShouldSkipAuth(req.route)
       THEN /\ pc' = NextHandler("auth")
            /\ UNCHANGED <<resp, emitted, ctxUserID, tried>>
       ELSE IF req.token = "none"
       THEN /\ emitted' = Inc(emitted, "auth_failures_total:missing_token")
            /\ resp' = [WriteStatus(resp, 401) EXCEPT !.aborted = TRUE]
            /\ pc' = "done"
            /\ UNCHANGED <<ctxUserID, tried>>
       ELSE /\ tried' = VerifiersTried(authType, req.token)
            /\ IF ~Verified(authType, req.token)
               THEN /\ emitted' = Inc(emitted, "auth_failures_total:invalid_token")
                    /\ resp' = [WriteStatus(resp, 401) EXCEPT !.aborted = TRUE]
                    /\ pc' = "done"
                    /\ UNCHANGED ctxUserID
               ELSE /\ ctxUserID' = ClaimsUserID(authType, req.token)
                    /\ pc' = NextHandler("auth")
                    /\ UNCHANGED <<resp, emitted>>
    /\ UNCHANGED <<clock, limCfg, limState, pipeCfg, req, reqNo, decisions, rlKey>>

RECURSIVE SplitFirst(_)
\* the text of s before its first "/" (all of s when it has none)
SplitFirst(s) ==
    IF s = <<>> \/ Head(s) = "/" THEN <<>> ELSE <<Head(s)>> \o SplitFirst(Tail(s))

\* strings.SplitN(s, "/", 2): the text before the first "/" and the text
\* after it, or s alone when it has no "/"
SplitN2(s) ==
    IF \E i \in 1..Len(s) : s[i] = "/"
    THEN <<SplitFirst(s), SubSeq(s, Len(SplitFirst(s)) + 2, Len(s))>>
    ELSE <<s>>

\* ParseServicePath: the service name and whether an error is returned
ParseServicePath(path) ==
    LET trimmed == IF path # <<>> /\ Head(path) = "/" THEN Tail(path) ELSE path
        parts == SplitN2(trimmed)
    IN IF Len(parts) = 0
       THEN [err |-> TRUE, service |-> <<>>]
       ELSE [err |-> FALSE, service |-> parts[1]]

\* the service name ParseServicePath returns
ParseService(path) == ParseServicePath(path).service

\* proxyHandler and Router.Proxy; dispatch is what the upstream call does:
\* "error", or the upstream's status
UpstreamStatuses == {200, 500}

ProxyHandler ==
    /\ pc = "proxy"
    /\ ran' = Append(ran, "proxy")
    /\ pc' = "done"
    /\ LET parsed == ParseServicePath(req.path)
           service == parsed.service
           counted == Inc(Inc(emitted, "http_requests_total:200"),
                          "http_request_duration_seconds")
       IN IF parsed.err
          THEN /\ resp' = WriteStatus(resp, 400)
               /\ emitted' = emitted
          ELSE IF service # <<"a">>
          THEN /\ resp' = WriteStatus(resp, 502)
               /\ emitted' = counted
          ELSE IF groupURLs = 0
          THEN /\ resp' = WriteStatus(resp, 503)
               /\ emitted' = counted
          ELSE \/ /\ resp' = WriteStatus(resp, 502)
                  /\ emitted' = Inc(counted, "upstream_requests_total:error")
               \/ \E st \in UpstreamStatuses, hs \in UpstreamResponseHeaders :
                     /\ resp' = WriteStatus([resp EXCEPT
                                                !.hdr = CopyResponseHeaders(@, hs)], st)
                     /\ emitted' = Inc(counted, "upstream_requests_total:status")
    /\ UNCHANGED <<clock, limCfg, limState, pipeCfg, req, ctxUserID, reqNo, decisions,
                   tried, rlKey>>

PipeTick ==
    /\ clock < MaxPipeTime
    /\ clock' = clock + 1
    /\ UNCHANGED <<limCfg, limState, pipeVars>>

PipeNext ==
    \/ Arrive /\ UNCHANGED selVars
    \/ RateLimitHandler /\ UNCHANGED selVars
    \/ AuthHandler /\ UNCHANGED selVars
    \/ ProxyHandler /\ UNCHANGED selVars
    \/ PipeTick /\ UNCHANGED selVars

\* the chain is exercised with a limiter of rate 1 and a window of 1 second
PipelineInit ==
    /\ LimiterInit /\ PipeInit /\ SelIdle
    /\ refillRate = 1
    /\ windowSize = 1

SpecPipeline == PipelineInit /\ [][PipeNext]_vars

(***************************************************************************)
(* The routes outside the /v1 group: /health, /ready and the metrics path, *)
(* served next to the /v1 traffic.                                         *)
(***************************************************************************)
\* the status the route's handler writes: healthHandler 200; readyHandler
\* 200, or 503 when the Redis ping fails; metricsHandler 200, or gin's 404
\* when metrics are disabled and the route was never registered
EndpointStatuses(route) ==
    CASE route = "/health" -> {200}
      [] route = "/ready" -> {200, 503}
      [] route = "/metrics" -> {200, 404}

\* a request arrives on /health, /ready or /metrics
ArriveRoot ==
    /\ pc \in {"idle", "done"}
    /\ reqNo < MaxRequests
    /\ \E t \in Tokens, r \in RootRoutes :
          /\ req' = [token |-> t, path |-> <<>>, route |-> r]
          /\ pc' = RouteChain(r)[1]
    /\ resp' = NoResponse
    /\ ran' = <<>>
    /\ ctxUserID' = ""
    /\ emitted' = NoMetrics
    /\ reqNo' = reqNo + 1
    /\ tried' = <<>>
    /\ rlKey' = ""
    /\ UNCHANGED <<clock, limCfg, limState, pipeCfg, decisions>>

\* healthHandler, readyHandler, metricsHandler
EndpointHandler ==
    /\ pc = "endpoint"
    /\ ran' = Append(ran, "endpoint")
    /\ pc' = "done"
    /\ \E st \in EndpointStatuses(req.route) : resp' = WriteStatus(resp, st)
    /\ UNCHANGED <<clock, limCfg, limState, pipeCfg, req, ctxUserID, emitted, reqNo,
                   decisions, tried, rlKey>>

RoutesNext ==
    \/ PipeNext
    \/ ArriveRoot /\ UNCHANGED selVars
    \/ EndpointHandler /\ UNCHANGED selVars

\* every route of the engine, in front of a token bucket
RoutesInit == PipelineInit /\ algorithm = "token_bucket"

SpecRoutes == RoutesInit /\ [][RoutesNext]_vars

(***************************************************************************)
(* Claims about the handler chain.                                         *)
(***************************************************************************)
\* the limiter has answered for the request in hand
Decided == rlEnabled /\ reqNo > 0 /\ Len(decisions) = reqNo
Decision == decisions[reqNo]

Before(seq, x, y) ==
    \A i \in 1..Len(seq) : seq[i] = y => \E j \in 1..(i - 1) : seq[j] = x

\* C4: authentication runs before the rate-limit decision: the limiter is
\* consulted only after authentication ran, and a request completed with 401
\* never had RateLimiter.Allow called for it.
C4_AuthBeforeRateLimit ==
    /\ Before(ran, "auth", "ratelimit")
    /\ (pc = "done" /\ resp.status = 401) =>
           \A i \in 1..Len(ran) : ran[i] # "ratelimit"

\* C5: fail-open: when Allow returns an error its result is (false, nil,
\* error), the middleware hands the request to the next handler, and none of
\* the four rate-limit headers is set (the response carries none until the
\* proxy handler copies the upstream's headers).
C5_FailOpen ==
    /\ (lastAllow.called /\ lastAllow.err) =>
           (~lastAllow.allowed /\ ~lastAllow.hasInfo)
    /\ (Decided /\ Decision = "error") =>
           /\ "proxy" \notin Range(ran) => resp.hdr.names \cap HeaderNames = {}
           /\ resp.status # 429
           /\ Len(ran) = 1 => pc = NextHandler("ratelimit")
           /\ pc = "done" => Len(ran) > 1

C5_Witness ==
    /\ Decided /\ Decision = "error"
    /\ pc = "done"
    /\ ran = <<"ratelimit", "auth", "proxy">>
    /\ resp.status = 200
    /\ lastAllow.err

\* C6: when the limiter answers allowed=false without error the request is
\* completed with 429, carries the four rate-limit headers, increments
\* rate_limit_hits_total exactly once and no later handler runs; with a token
\* bucket of B=2, R=1, three back-to-back requests under one key are allowed,
\* allowed, denied, the denial carrying X-RateLimit-Remaining: 0 and
\* Retry-After: 1.
C6_Denial ==
    /\ (Decided /\ Decision = "denied") =>
           /\ pc = "done"
           /\ resp.status = 429
           /\ resp.hdr.names = HeaderNames
           /\ emitted["rate_limit_hits_total"] = 1
           /\ ran = <<"ratelimit">>
    /\ (/\ algorithm = "token_bucket" /\ bucketSize = 2 /\ refillRate = 1
        /\ clock = 0 /\ Decided /\ reqNo = 3
        /\ \A i \in 1..3 : decisions[i] # "error") =>
           /\ decisions = <<"allowed", "allowed", "denied">>
           /\ resp.hdr.val["X-RateLimit-Remaining"] = 0
           /\ resp.hdr.val["Retry-After"] = 1

C6_Witness ==
    /\ algorithm = "token_bucket" /\ bucketSize = 2 /\ refillRate = 1
    /\ clock = 0
    /\ decisions = <<"allowed", "allowed", "denied">>
    /\ pc = "done"
    /\ resp.status = 429
    /\ resp.hdr.val["Retry-After"] = 1

(***************************************************************************)
(* The weighted round-robin balancer on its own, built with one positive   *)
(* weight per URL.                                                         *)
(***************************************************************************)
MaxURLs == 3
MaxWeight == 5
MaxPicks == 15

URLList(n) == [i \in 1..n |-> i]

WRRInit ==
    /\ LimIdle /\ PipeIdle
    /\ policy = "weighted"
    /\ nURLs \in 1..MaxURLs
    /\ hasProbe = FALSE
    /\ weights \in [1..nURLs -> 1..MaxWeight]
    /\ wrr = NewWeightedRoundRobin(URLList(nURLs), weights)
    /\ healthy = <<>>
    /\ probeAt = 0
    /\ upstreamCurrent = 0
    /\ conns = <<>>
    /\ slots = <<>>
    /\ picked = <<>>
    /\ lastPick = NoPick
    /\ rrCalls = <<>>
    /\ lastDone = NoneDone
    /\ lastOp = NoOp
    /\ callerHdr = EmptyHeader
    /\ upstreamHdr = NoUpstreamRequest
    /\ HcIdle
    /\ atArrive = NoSnapshot

\* one call of WeightedRoundRobin.Next
WRRPick ==
    /\ Len(picked) < MaxPicks
    /\ LET r == WRRNext(wrr)
       IN /\ wrr' = r.wrr
          /\ picked' = Append(picked, r.url)
    /\ UNCHANGED <<limVars, pipeVars, hcVars, atArrive, callerHdr, upstreamHdr, rrCalls, lastDone, lastOp, policy, nURLs, hasProbe, weights, healthy,
                   probeAt, upstreamCurrent, conns, slots, lastPick>>

SpecWRR == WRRInit /\ [][WRRPick]_vars

RECURSIVE Count(_, _)
\* number of times u occurs in q
Count(q, u) ==
    IF q = <<>> THEN 0
    ELSE (IF Head(q) = u THEN 1 ELSE 0) + Count(Tail(q), u)

IsPrefix(p, q) == Len(p) <= Len(q) /\ \A i \in 1..Len(p) : p[i] = q[i]

\* C10: after any N calls of Next with N a multiple of S = sum of weights,
\* URL i has been returned exactly N*w[i]/S times; for weights [5,1,1] the
\* first 7 results are u1 u1 u2 u1 u3 u1 u1.
C10_WeightedCounts ==
    LET S == SumSeq(weights)
        N == Len(picked)
    IN /\ N % S = 0 => \A i \in 1..nURLs : Count(picked, i) * S = N * weights[i]
       /\ weights = <<5, 1, 1>> =>
             \/ IsPrefix(picked, <<1, 1, 2, 1, 3, 1, 1>>)
             \/ IsPrefix(<<1, 1, 2, 1, 3, 1, 1>>, picked)

C10_Witness ==
    /\ weights = <<5, 1, 1>>
    /\ Len(picked) = 14
    /\ Count(picked, 1) = 10

(***************************************************************************)
(* Upstream selection through the Router: one group built by NewRouter,    *)
(* its optional health checker, and Proxy calls in flight.                 *)
(***************************************************************************)
MaxCfgWeight == 2
MaxSelects == 4
MaxInflight == 2
MaxGroup == 2

Policies == {"round_robin", "least_connections", "weighted"}

\* Upstream.Weights as NewRouter leaves it: make([]int, n) followed by n appends
UpstreamWeights(n, cfgWeight) ==
    [i \in 1..n |-> 0] \o [i \in 1..n |-> IF cfgWeight = 0 THEN 1 ELSE cfgWeight]

FreeSlot == [stage |-> "free", url |-> 0]

\* ConnectionTracker.Increment
Increment(c, u) == [c EXCEPT ![u] = @ + 1]

\* a Decrement without the test for a positive count
DecrementUnguarded(c, u) == [c EXCEPT ![u] = @ - 1]

\* a Decrement whose test is off by one
DecrementAboveOne(c, u) == IF c[u] > 1 THEN [c EXCEPT ![u] = @ - 1] ELSE c

\* ConnectionTracker.Decrement
Decrement(c, u) == IF c[u] > 0 THEN [c EXCEPT ![u] = @ - 1] ELSE c

\* what r.client.Do can come back with: an error, an error because the
\* caller's context was cancelled, or the upstream's response, whose body
\* io.Copy then copies to the end ("ok") or fails to ("midbody")
DispatchResults ==
    {[kind |-> "error", status |-> 0], [kind |-> "cancelled", status |-> 0]}
    \cup {[kind |-> "ok", status |-> st] : st \in UpstreamStatuses}
    \cup {[kind |-> "midbody", status |-> st] : st \in UpstreamStatuses}

\* a Proxy that answers a missing candidate as a failed dispatch
NoCandidateAsBadGateway ==
    [result |-> "nocandidate", status |-> 502, errors |-> 1, statuses |-> 0]

\* Proxy when selectUpstream returned "": 503, nothing counted
NoCandidate == [result |-> "nocandidate", status |-> 503, errors |-> 0, statuses |-> 0]

\* a Proxy that counts a failed dispatch under a status label
AfterDispatchMislabelled(r) ==
    [result |-> r.kind, status |-> IF r.kind \in {"ok", "midbody"} THEN r.status ELSE 502,
     errors |-> 0, statuses |-> 1]

\* Proxy once r.client.Do has returned: the status answered and the
\* increments of upstream_requests_total by label; the result of io.Copy
\* is not looked at
AfterDispatch(r) ==
    IF r.kind \in {"error", "cancelled"}
    THEN [result |-> r.kind, status |-> 502, errors |-> 1, statuses |-> 0]
    ELSE [result |-> r.kind, status |-> r.status, errors |-> 0, statuses |-> 1]

SelectorInit ==
    /\ LimIdle /\ PipeIdle
    /\ policy \in Policies
    /\ nURLs \in 0..MaxGroup
    /\ hasProbe \in BOOLEAN
    /\ \E cfgWeight \in 0..MaxCfgWeight : weights = UpstreamWeights(nURLs, cfgWeight)
    /\ wrr = IF policy = "weighted"
             THEN NewWeightedRoundRobin(URLList(nURLs), weights)
             ELSE NoBalancer
    /\ healthy = [i \in 1..nURLs |-> "unset"]
    /\ probeAt = 0
    /\ upstreamCurrent = 0
    /\ conns = [i \in 1..nURLs |-> 0]
    /\ slots = [k \in 1..MaxInflight |-> FreeSlot]
    /\ picked = <<>>
    /\ lastPick = NoPick
    /\ rrCalls = <<>>
    /\ lastDone = NoneDone
    /\ lastOp = NoOp
    /\ callerHdr = EmptyHeader
    /\ upstreamHdr = NoUpstreamRequest
    /\ HcIdle
    /\ atArrive = NoSnapshot

\* one iteration of the loop of checkAll: probe the next URL and record the result
CheckOne ==
    /\ hasProbe
    /\ probeAt < nURLs
    /\ \E ok \in BOOLEAN :
          healthy' = [healthy EXCEPT ![probeAt + 1] = IF ok THEN "up" ELSE "down"]
    /\ probeAt' = (probeAt + 1) % nURLs
    /\ UNCHANGED <<limVars, pipeVars, hcVars, atArrive, callerHdr, upstreamHdr, rrCalls, lastDone, lastOp, policy, nURLs, hasProbe, weights,
                   upstreamCurrent, conns, wrr, slots, picked, lastPick>>

RecordedUp == {u \in 1..nURLs : healthy[u] = "up"}
RecordedDown == {u \in 1..nURLs : healthy[u] = "down"}

\* every order in which a set can be listed
Orders(S) ==
    {q \in [1..Cardinality(S) -> S] : \A i, j \in 1..Cardinality(S) : i # j => q[i] # q[j]}

\* a list that holds one healthy URL only
GetHealthyURLsLastOnly ==
    IF RecordedUp = {} THEN {URLList(nURLs)}
    ELSE {<<CHOOSE u \in RecordedUp : \A v \in RecordedUp : v <= u>>}

\* the lists GetHealthyURLs can return: the URLs recorded healthy in map
\* iteration order, or all URLs of the group when none is
GetHealthyURLs == IF RecordedUp = {} THEN {URLList(nURLs)} ELSE Orders(RecordedUp)

\* the lists the policies choose from
Candidates == IF hasProbe THEN GetHealthyURLs ELSE {URLList(nURLs)}

RoundRobin(healthyURLs) ==
    LET c == (upstreamCurrent + 1) % Len(healthyURLs)
    IN [url |-> healthyURLs[c + 1], current |-> c, wrr |-> wrr]

RECURSIVE LeastScan(_, _, _, _)
LeastScan(urls, i, leastURL, leastCount) ==
    IF i > Len(urls) THEN leastURL
    ELSE IF conns[urls[i]] < leastCount
         THEN LeastScan(urls, i + 1, urls[i], conns[urls[i]])
         ELSE LeastScan(urls, i + 1, leastURL, leastCount)

GetLeastConnections(urls) ==
    IF Len(urls) = 0 THEN 0 ELSE LeastScan(urls, 2, urls[1], conns[urls[1]])

LeastConnections(healthyURLs) ==
    [url |-> GetLeastConnections(healthyURLs), current |-> upstreamCurrent, wrr |-> wrr]

Weighted(healthyURLs) ==
    LET balancer == IF wrr.exists THEN wrr
                    ELSE NewWeightedRoundRobin(healthyURLs, weights)
        r == WRRNext(balancer)
    IN [url |-> r.url, current |-> upstreamCurrent, wrr |-> r.wrr]

SelectUpstream(healthyURLs) ==
    IF nURLs = 0 THEN [url |-> 0, current |-> upstreamCurrent, wrr |-> wrr]
    ELSE CASE policy = "round_robin" -> RoundRobin(healthyURLs)
           [] policy = "least_connections" -> LeastConnections(healthyURLs)
           [] policy = "weighted" -> Weighted(healthyURLs)
           [] OTHER -> RoundRobin(healthyURLs)

\* Proxy up to the choice of the upstream URL; "" is answered 503 at once
Select ==
    /\ Len(picked) < MaxSelects
    /\ \E k \in DOMAIN slots, healthyURLs \in Candidates :
          /\ slots[k].stage = "free"
          /\ LET r == SelectUpstream(healthyURLs)
             IN /\ upstreamCurrent' = r.current
                /\ wrr' = r.wrr
                /\ picked' = Append(picked, r.url)
                /\ lastPick' = [called |-> TRUE, url |-> r.url,
                                up |-> RecordedUp, down |-> RecordedDown,
                                fell |-> lastPick.fell \cup RecordedDown]
                /\ slots' = [slots EXCEPT ![k] =
                                IF r.url = 0 THEN FreeSlot
                                ELSE [stage |-> "selected", url |-> r.url]]
                /\ lastDone' = IF r.url = 0 THEN NoCandidate ELSE lastDone
    /\ UNCHANGED <<limVars, pipeVars, hcVars, atArrive, callerHdr, upstreamHdr, rrCalls, lastOp, policy, nURLs, hasProbe,
                   weights, healthy, probeAt, conns>>

\* Proxy from the built request to the call of the upstream
Dispatch ==
    /\ \E k \in DOMAIN slots :
          /\ slots[k].stage = "selected"
          /\ conns' = IF policy = "least_connections"
                      THEN Increment(conns, slots[k].url)
                      ELSE conns
          /\ slots' = [slots EXCEPT ![k].stage = "dispatched"]
    /\ UNCHANGED <<limVars, pipeVars, hcVars, atArrive, callerHdr, upstreamHdr, rrCalls, lastDone, lastOp, policy, nURLs, hasProbe,
                   weights, healthy, probeAt, upstreamCurrent, wrr, picked, lastPick>>

\* the upstream call returns, Proxy answers and the deferred Decrement runs
Finish ==
    /\ \E k \in DOMAIN slots, result \in DispatchResults :
          /\ slots[k].stage = "dispatched"
          /\ lastDone' = AfterDispatch(result)
          /\ conns' = IF policy = "least_connections"
                      THEN Decrement(conns, slots[k].url)
                      ELSE conns
          /\ slots' = [slots EXCEPT ![k] = FreeSlot]
    /\ UNCHANGED <<limVars, pipeVars, hcVars, atArrive, callerHdr, upstreamHdr, rrCalls, lastOp, policy, nURLs, hasProbe,
                   weights, healthy, probeAt, upstreamCurrent, wrr, picked, lastPick>>

SelectorNext == CheckOne \/ Select \/ Dispatch \/ Finish

SpecSelector == SelectorInit /\ [][SelectorNext]_vars

\* Router.Proxy calls on a group that has no health check
ProxyInit == SelectorInit /\ hasProbe = FALSE

ProxyNext == Select \/ Dispatch \/ Finish

SpecProxy == ProxyInit /\ [][ProxyNext]_vars

\* a group [u1, u2] with a health probe under round_robin or least_connections
\* whose requests are proxied one at a time
RejoinInit ==
    /\ LimIdle /\ PipeIdle
    /\ policy \in {"round_robin", "least_connections"}
    /\ nURLs = 2
    /\ hasProbe = TRUE
    /\ weights = UpstreamWeights(2, 0)
    /\ wrr = NoBalancer
    /\ healthy = [i \in 1..nURLs |-> "unset"]
    /\ probeAt = 0
    /\ upstreamCurrent = 0
    /\ conns = [i \in 1..nURLs |-> 0]
    /\ slots = <<FreeSlot>>
    /\ picked = <<>>
    /\ lastPick = NoPick
    /\ rrCalls = <<>>
    /\ lastDone = NoneDone
    /\ lastOp = NoOp
    /\ callerHdr = EmptyHeader
    /\ upstreamHdr = NoUpstreamRequest
    /\ HcIdle
    /\ atArrive = NoSnapshot

SpecRejoin == RejoinInit /\ [][SelectorNext]_vars

(***************************************************************************)
(* The /v1 chain in front of the Router: the requests of one client pass   *)
(* the rate limit and the authentication and reach proxyHandler, whose     *)
(* Router.Proxy call selects among the URLs of the group "a".              *)
(***************************************************************************)
\* upstream.Current, the group's balancer and the connection counts
Snapshot == [current |-> upstreamCurrent, wrr |-> wrr, conns |-> conns]

\* a Proxy that selects before it looks the service name up
SelectedBeforeLookup(service, healthyURLs) == SelectUpstream(healthyURLs)

\* Router.Proxy up to selectUpstream: a name that is not in r.upstreams
\* returns before any selection is made
SelectedFor(service, healthyURLs) ==
    IF service = <<"a">> THEN SelectUpstream(healthyURLs)
    ELSE [url |-> 0, current |-> upstreamCurrent, wrr |-> wrr]

GatewayInit ==
    /\ LimiterInit /\ PipeInit
    /\ algorithm = "token_bucket"
    /\ bucketSize = 1
    /\ refillRate = 1
    /\ rlEnabled = TRUE
    /\ policy \in Policies
    /\ nURLs \in 0..MaxGroup
    /\ groupURLs = Min(nURLs, 1)
    /\ hasProbe = FALSE
    /\ weights = UpstreamWeights(nURLs, 0)
    /\ wrr = IF policy = "weighted"
             THEN NewWeightedRoundRobin(URLList(nURLs), weights)
             ELSE NoBalancer
    /\ healthy = [i \in 1..nURLs |-> "unset"]
    /\ probeAt = 0
    /\ upstreamCurrent = 0
    /\ conns = [i \in 1..nURLs |-> 0]
    /\ slots = <<FreeSlot>>
    /\ picked = <<>>
    /\ lastPick = NoPick
    /\ rrCalls = <<>>
    /\ lastDone = NoneDone
    /\ lastOp = NoOp
    /\ callerHdr = EmptyHeader
    /\ upstreamHdr = NoUpstreamRequest
    /\ HcIdle
    /\ atArrive = NoSnapshot

\* what the requests of the chain leave alone in the Router
gatewayFrame == <<hcVars, policy, nURLs, hasProbe, weights, healthy, probeAt, lastPick,
                  rrCalls, lastOp, callerHdr, upstreamHdr>>

\* a request arrives on the /v1 route
GatewayArrive ==
    /\ Arrive
    /\ atArrive' = Snapshot
    /\ lastDone' = NoneDone
    /\ UNCHANGED <<gatewayFrame, upstreamCurrent, wrr, conns, slots, picked>>

\* proxyHandler, and Router.Proxy up to the call of the upstream
ProxyEnter ==
    /\ pc = "proxy"
    /\ ran' = Append(ran, "proxy")
    /\ LET parsed == ParseServicePath(req.path)
           counted == Inc(Inc(emitted, "http_requests_total:200"),
                          "http_request_duration_seconds")
       IN IF parsed.err
          THEN /\ resp' = WriteStatus(resp, 400)
               /\ emitted' = emitted
               /\ pc' = "done"
               /\ UNCHANGED <<upstreamCurrent, wrr, conns, slots, picked, lastDone>>
          ELSE \E healthyURLs \in Candidates :
                  LET r == SelectedFor(parsed.service, healthyURLs)
                  IN /\ upstreamCurrent' = r.current
                     /\ wrr' = r.wrr
                     /\ emitted' = counted
                     /\ IF parsed.service # <<"a">>
                        THEN /\ resp' = WriteStatus(resp, 502)
                             /\ pc' = "done"
                             /\ UNCHANGED <<conns, slots, picked, lastDone>>
                        ELSE IF r.url = 0
                        THEN /\ resp' = WriteStatus(resp, 503)
                             /\ pc' = "done"
                             /\ picked' = Append(picked, r.url)
                             /\ lastDone' = NoCandidate
                             /\ UNCHANGED <<conns, slots>>
                        ELSE /\ resp' = resp
                             /\ pc' = "upstream"
                             /\ picked' = Append(picked, r.url)
                             /\ conns' = IF policy = "least_connections"
                                         THEN Increment(conns, r.url)
                                         ELSE conns
                             /\ slots' = <<[stage |-> "dispatched", url |-> r.url]>>
                             /\ UNCHANGED lastDone
    /\ UNCHANGED <<clock, limCfg, limState, pipeCfg, req, ctxUserID, reqNo, decisions,
                   tried, rlKey, atArrive, gatewayFrame>>

\* r.client.Do returns, Proxy answers and the deferred Decrement runs
ProxyReturn ==
    /\ pc = "upstream"
    /\ pc' = "done"
    /\ \E result \in DispatchResults :
          LET done == AfterDispatch(result)
          IN /\ lastDone' = done
             /\ emitted' = Inc(emitted, IF done.errors = 1
                                        THEN "upstream_requests_total:error"
                                        ELSE "upstream_requests_total:status")
             /\ IF done.errors = 1
                THEN resp' = WriteStatus(resp, 502)
                ELSE \E hs \in UpstreamResponseHeaders :
                        resp' = WriteStatus([resp EXCEPT
                                                !.hdr = CopyResponseHeaders(@, hs)],
                                            done.status)
    /\ conns' = IF policy = "least_connections"
                THEN Decrement(conns, slots[1].url)
                ELSE conns
    /\ slots' = <<FreeSlot>>
    /\ UNCHANGED <<clock, limCfg, limState, pipeCfg, req, ran, ctxUserID, reqNo, decisions,
                   tried, rlKey, atArrive, gatewayFrame, upstreamCurrent, wrr, picked>>

GatewayNext ==
    \/ GatewayArrive
    \/ RateLimitHandler /\ UNCHANGED selVars
    \/ AuthHandler /\ UNCHANGED selVars
    \/ ProxyEnter
    \/ ProxyReturn

SpecGateway == GatewayInit /\ [][GatewayNext]_vars

(***************************************************************************)
(* The goroutine NewRouter starts with "go upstream.Health.Start()", step  *)
(* by step, beside a caller of GetHealthyURLs and a caller of Stop.  The   *)
(* ticker delivers a tick whenever its channel is empty: nothing ties the  *)
(* configured interval to the time a round of probes takes.                *)
(***************************************************************************)
MaxRoundsAfterStop == 2

\* what the health checker's goroutine and its callers leave alone
hcFrame == <<limVars, pipeVars, atArrive, policy, nURLs, hasProbe, weights, upstreamCurrent,
             conns, wrr, slots, picked, lastPick, rrCalls, lastDone, lastOp,
             callerHdr, upstreamHdr>>

ProbeInit ==
    /\ LimIdle /\ PipeIdle
    /\ policy = "round_robin"
    /\ nURLs \in 1..MaxGroup
    /\ hasProbe = TRUE
    /\ weights = UpstreamWeights(nURLs, 0)
    /\ wrr = NoBalancer
    /\ healthy = [i \in 1..nURLs |-> "unset"]
    /\ probeAt = 0
    /\ upstreamCurrent = 0
    /\ conns = [i \in 1..nURLs |-> 0]
    /\ slots = <<FreeSlot>>
    /\ picked = <<>>
    /\ lastPick = NoPick
    /\ rrCalls = <<>>
    /\ lastDone = NoneDone
    /\ lastOp = NoOp
    /\ callerHdr = EmptyHeader
    /\ upstreamHdr = NoUpstreamRequest
    /\ atArrive = NoSnapshot
    \* Start runs its initial checkAll
    /\ hcAt = "check"
    /\ probeResult = FALSE
    /\ mu = "free"
    /\ tickC = FALSE
    /\ stopC = FALSE
    /\ roundsAfterStop = 0
    /\ roundBefore = healthy
    /\ seen = {}
    /\ doneRound = NoRound

\* checkHealth sends its GET to the next URL of the round
ProbeSend ==
    /\ hcAt = "check"
    /\ hcAt' = "probing"
    /\ UNCHANGED <<hcFrame, healthy, probeAt, probeResult, mu, tickC, stopC,
                   roundsAfterStop, roundBefore, seen, doneRound>>

\* httpClient.Do returns: true for a 200, false for anything else
ProbeReturn ==
    /\ hcAt = "probing"
    /\ \E ok \in BOOLEAN : probeResult' = ok
    /\ hcAt' = "probed"
    /\ UNCHANGED <<hcFrame, healthy, probeAt, mu, tickC, stopC,
                   roundsAfterStop, roundBefore, seen, doneRound>>

\* hc.mu.Lock() in checkAll
StoreLock ==
    /\ hcAt = "probed"
    /\ mu = "free"
    /\ mu' = "writer"
    /\ hcAt' = "locked"
    /\ UNCHANGED <<hcFrame, healthy, probeAt, probeResult, tickC, stopC,
                   roundsAfterStop, roundBefore, seen, doneRound>>

\* hc.healthy[url] = healthy; hc.mu.Unlock(); then the next URL of the
\* range, or back to the select of Start after the last
StoreUnlock ==
    /\ hcAt = "locked"
    /\ healthy' = [healthy EXCEPT ![probeAt + 1] = IF probeResult THEN "up" ELSE "down"]
    /\ mu' = "free"
    /\ IF probeAt + 1 = nURLs
       THEN /\ probeAt' = 0
            /\ hcAt' = "select"
            /\ doneRound' = [complete |-> TRUE, before |-> roundBefore,
                             after |-> healthy', seen |-> seen]
            /\ roundBefore' = healthy'
            /\ seen' = {}
       ELSE /\ probeAt' = probeAt + 1
            /\ hcAt' = "check"
            /\ UNCHANGED <<doneRound, roundBefore, seen>>
    /\ UNCHANGED <<hcFrame, probeResult, tickC, stopC, roundsAfterStop>>

\* the ticker puts a tick into its channel of capacity 1
TickerFire ==
    /\ hcAt # "returned"
    /\ ~tickC
    /\ tickC' = TRUE
    /\ UNCHANGED <<hcFrame, healthy, probeAt, hcAt, probeResult, mu, stopC,
                   roundsAfterStop, roundBefore, seen, doneRound>>

\* select takes the case <-ticker.C, which it may whenever a tick is
\* waiting, closed stop channel or not
SelectTick ==
    /\ hcAt = "select"
    /\ tickC
    /\ stopC => roundsAfterStop < MaxRoundsAfterStop
    /\ tickC' = FALSE
    /\ hcAt' = "check"
    /\ roundsAfterStop' = IF stopC THEN roundsAfterStop + 1 ELSE roundsAfterStop
    /\ UNCHANGED <<hcFrame, healthy, probeAt, probeResult, mu, stopC,
                   roundBefore, seen, doneRound>>

\* select takes the case <-hc.stop and Start returns
SelectStop ==
    /\ hcAt = "select"
    /\ stopC
    /\ hcAt' = "returned"
    /\ UNCHANGED <<hcFrame, healthy, probeAt, probeResult, mu, tickC, stopC,
                   roundsAfterStop, roundBefore, seen, doneRound>>

\* HealthChecker.Stop, called once
Stop ==
    /\ ~stopC
    /\ stopC' = TRUE
    /\ UNCHANGED <<hcFrame, healthy, probeAt, hcAt, probeResult, mu, tickC,
                   roundsAfterStop, roundBefore, seen, doneRound>>

\* hc.mu.RLock() in GetHealthyURLs
ReadLock ==
    /\ mu = "free"
    /\ mu' = "reader"
    /\ UNCHANGED <<hcFrame, healthy, probeAt, hcAt, probeResult, tickC, stopC,
                   roundsAfterStop, roundBefore, seen, doneRound>>

\* the body of GetHealthyURLs and its deferred RUnlock
ReadHealthy ==
    /\ mu = "reader"
    /\ \E healthyURLs \in GetHealthyURLs : seen' = seen \cup {Range(healthyURLs)}
    /\ mu' = "free"
    /\ UNCHANGED <<hcFrame, healthy, probeAt, hcAt, probeResult, tickC, stopC,
                   roundsAfterStop, roundBefore, doneRound>>

ProbeNext ==
    \/ ProbeSend
    \/ ProbeReturn
    \/ StoreLock
    \/ StoreUnlock
    \/ TickerFire
    \/ SelectTick
    \/ SelectStop
    \/ Stop
    \/ ReadLock
    \/ ReadHealthy

SpecProbe == ProbeInit /\ [][ProbeNext]_vars

\* round_robin on a group of 1..MaxURLs URLs whose requests are proxied one
\* at a time; with a probe, every round so far has recorded the same values
StableInit ==
    /\ LimIdle /\ PipeIdle
    /\ policy = "round_robin"
    /\ nURLs \in 1..MaxURLs
    /\ hasProbe \in BOOLEAN
    /\ weights = UpstreamWeights(nURLs, 0)
    /\ wrr = NoBalancer
    /\ healthy \in [1..nURLs -> IF hasProbe THEN {"up", "down"} ELSE {"unset"}]
    /\ probeAt = 0
    /\ upstreamCurrent = 0
    /\ conns = [i \in 1..nURLs |-> 0]
    /\ slots = <<FreeSlot>>
    /\ picked = <<>>
    /\ lastPick = NoPick
    /\ rrCalls = <<>>
    /\ lastDone = NoneDone
    /\ lastOp = NoOp
    /\ callerHdr = EmptyHeader
    /\ upstreamHdr = NoUpstreamRequest
    /\ HcIdle
    /\ atArrive = NoSnapshot

SpecStable == StableInit /\ [][ProxyNext]_vars

\* C8: with a health probe, a URL recorded unhealthy is not returned by
\* selectUpstream while some URL of the group is recorded healthy.
C8_UnhealthyExcluded ==
    (hasProbe /\ lastPick.called /\ lastPick.up # {}) => lastPick.url \notin lastPick.down

\* the same statement for the two policies that choose from GetHealthyURLs
C8_FilteringPolicies ==
    policy \in {"round_robin", "least_connections"} => C8_UnhealthyExcluded

\* C9: weighted policy on a group of n >= 2 URLs without probe: no URL is
\* starved, after any N selections with N a multiple of the sum S of the
\* group's weights each URL has been returned its share N*w/S of them.
C9_NoStarvation ==
    (policy = "weighted" /\ ~hasProbe /\ nURLs >= 2) =>
        LET S == SumSeq(weights)
            N == Len(picked)
        IN N % S = 0 =>
              \A u \in 1..nURLs : Count(picked, u) * S = N * weights[nURLs + u]

(***************************************************************************)
(* Router.roundRobin statement by statement: the method takes no lock, so  *)
(* calls on the same group interleave between its reads and writes of      *)
(* upstream.Current.                                                       *)
(***************************************************************************)
IdleCall == [stage |-> "idle", list |-> <<>>, reg |-> 0, url |-> 0]

CursorInit ==
    /\ LimIdle /\ PipeIdle
    /\ policy = "round_robin"
    /\ nURLs \in 1..MaxURLs
    /\ hasProbe \in BOOLEAN
    /\ weights = UpstreamWeights(nURLs, 0)
    /\ wrr = NoBalancer
    /\ healthy = [i \in 1..nURLs |-> "unset"]
    /\ probeAt = 0
    /\ upstreamCurrent = 0
    /\ conns = [i \in 1..nURLs |-> 0]
    /\ slots = [k \in 1..MaxInflight |-> FreeSlot]
    /\ picked = <<>>
    /\ lastPick = NoPick
    /\ rrCalls = [k \in 1..MaxInflight |-> IdleCall]
    /\ lastDone = NoneDone
    /\ lastOp = NoOp
    /\ callerHdr = EmptyHeader
    /\ upstreamHdr = NoUpstreamRequest
    /\ HcIdle
    /\ atArrive = NoSnapshot

\* healthyURLs := upstream.URLs, or upstream.Health.GetHealthyURLs()
RRList(k) ==
    /\ rrCalls[k].stage \in {"idle", "returned", "panicked"}
    /\ \E healthyURLs \in Candidates :
          rrCalls' = [rrCalls EXCEPT ![k] =
                         [stage |-> "listed", list |-> healthyURLs, reg |-> 0, url |-> 0]]
    /\ UNCHANGED upstreamCurrent

\* the read of upstream.Current on the right of the assignment
RRLoad(k) ==
    /\ rrCalls[k].stage = "listed"
    /\ rrCalls' = [rrCalls EXCEPT ![k].stage = "loaded", ![k].reg = upstreamCurrent]
    /\ UNCHANGED upstreamCurrent

\* upstream.Current = (<value read> + 1) % len(healthyURLs)
RRStore(k) ==
    /\ rrCalls[k].stage = "loaded"
    /\ upstreamCurrent' = (rrCalls[k].reg + 1) % Len(rrCalls[k].list)
    /\ rrCalls' = [rrCalls EXCEPT ![k].stage = "stored"]

\* return healthyURLs[upstream.Current]: an index past the end panics
RRIndex(k) ==
    /\ rrCalls[k].stage = "stored"
    /\ LET healthyURLs == rrCalls[k].list
       IN rrCalls' = IF upstreamCurrent < Len(healthyURLs)
                     THEN [rrCalls EXCEPT ![k].stage = "returned",
                                          ![k].url = healthyURLs[upstreamCurrent + 1]]
                     ELSE [rrCalls EXCEPT ![k].stage = "panicked"]
    /\ UNCHANGED upstreamCurrent

cursorFrame == <<limVars, pipeVars, hcVars, atArrive, callerHdr, upstreamHdr, policy, nURLs, hasProbe, weights, healthy, probeAt,
                 conns, wrr, slots, picked, lastPick, lastDone, lastOp>>

CursorNext ==
    \/ CheckOne
    \/ \E k \in 1..MaxInflight : RRList(k) /\ UNCHANGED cursorFrame
    \/ \E k \in 1..MaxInflight : RRLoad(k) /\ UNCHANGED cursorFrame
    \/ \E k \in 1..MaxInflight : RRStore(k) /\ UNCHANGED cursorFrame
    \/ \E k \in 1..MaxInflight : RRIndex(k) /\ UNCHANGED cursorFrame

SpecCursor == CursorInit /\ [][CursorNext]_vars

\* C11: under any interleaving of roundRobin calls on one group, no call
\* indexes its healthy list out of range and every call that returns,
\* returns a member of the healthy list it read.
C11_CursorSafe ==
    \A k \in 1..MaxInflight :
        /\ rrCalls[k].stage # "panicked"
        /\ rrCalls[k].stage = "returned" => rrCalls[k].url \in Range(rrCalls[k].list)

(***************************************************************************)
(* Claims about Router.Proxy and the connection tracker.                   *)
(***************************************************************************)
\* the Proxy calls between their Increment(u) and their return
InFlight(u) == {k \in 1..MaxInflight : slots[k].stage = "dispatched" /\ slots[k].url = u}

\* C12: under least_connections GetCount(u) is the number of Proxy calls
\* between their Increment(u) and their return, whatever way they end, so
\* the count is 0 once no call for u is in flight.
C12_CountIsInFlight ==
    policy = "least_connections" =>
        \A u \in 1..nURLs : conns[u] = Cardinality(InFlight(u))

C12_Witness ==
    /\ policy = "least_connections"
    /\ lastDone.result = "cancelled"
    /\ \E u \in 1..nURLs : conns[u] = 1 /\ \A v \in 1..nURLs : v # u => conns[v] = 0
    /\ Len(picked) = MaxSelects

(***************************************************************************)
(* The ConnectionTracker on its own: Increment and Decrement called in     *)
(* any order on any URL.                                                   *)
(***************************************************************************)
MaxCount == 3

TrackerInit ==
    /\ LimIdle /\ PipeIdle
    /\ policy = "least_connections"
    /\ nURLs \in 1..MaxURLs
    /\ hasProbe = FALSE
    /\ weights = <<>>
    /\ healthy = <<>>
    /\ probeAt = 0
    /\ upstreamCurrent = 0
    /\ conns = [u \in 1..nURLs |-> 0]
    /\ wrr = NoBalancer
    /\ slots = <<>>
    /\ picked = <<>>
    /\ lastPick = NoPick
    /\ rrCalls = <<>>
    /\ lastDone = NoneDone
    /\ lastOp = NoOp
    /\ callerHdr = EmptyHeader
    /\ upstreamHdr = NoUpstreamRequest
    /\ HcIdle
    /\ atArrive = NoSnapshot

trackerFrame == <<limVars, pipeVars, hcVars, atArrive, callerHdr, upstreamHdr, policy, nURLs, hasProbe, weights, healthy, probeAt,
                  upstreamCurrent, wrr, slots, picked, lastPick, rrCalls, lastDone>>

TrackerIncrement ==
    /\ \E u \in 1..nURLs :
          /\ conns[u] < MaxCount
          /\ conns' = Increment(conns, u)
          /\ lastOp' = [op |-> "Increment", url |-> u, prev |-> conns]
    /\ UNCHANGED trackerFrame

TrackerDecrement ==
    /\ \E u \in 1..nURLs :
          /\ conns' = Decrement(conns, u)
          /\ lastOp' = [op |-> "Decrement", url |-> u, prev |-> conns]
    /\ UNCHANGED trackerFrame

TrackerNext == TrackerIncrement \/ TrackerDecrement

SpecTracker == TrackerInit /\ [][TrackerNext]_vars

\* C13: after any sequence of Increment and Decrement calls no count is
\* negative, and a Decrement on a count of zero leaves every count as it was.
C13_NeverNegative ==
    /\ \A u \in 1..nURLs : conns[u] >= 0
    /\ (lastOp.op = "Decrement" /\ lastOp.prev[lastOp.url] = 0) => conns = lastOp.prev

C13_Witness ==
    /\ lastOp.op = "Decrement"
    /\ lastOp.prev[lastOp.url] = 0
    /\ \E v \in 1..nURLs : conns[v] = MaxCount

(***************************************************************************)
(* The headers of the upstream request Router.Proxy builds.                *)
(***************************************************************************)
MaxHeaders == 2
MaxValues == 2

HdrValues == {"a", "b"}

\* the value lists a header present in the request can have
ValueLists == UNION {[1..n -> HdrValues] : n \in 1..MaxValues}

\* http.Header.Add: append the value to the key's list
HeaderAdd(h, key, value) == [h EXCEPT ![key] = Append(@, value)]

\* a Del that leaves the map as it is
HeaderDelNothing(h, key) == h

\* http.Header.Del: remove the key
HeaderDel(h, key) == [h EXCEPT ![key] = <<>>]

RECURSIVE AddValues(_, _, _)
\* for _, value := range values { req.Header.Add(key, value) }
AddValues(h, key, values) ==
    IF values = <<>> THEN h
    ELSE AddValues(HeaderAdd(h, key, Head(values)), key, Tail(values))

RECURSIVE CopyHeaders(_, _, _)
\* for key, values := range c.Request.Header { ... }
CopyHeaders(h, src, keys) ==
    IF keys = {} THEN h
    ELSE LET key == CHOOSE k \in keys : TRUE
         IN CopyHeaders(AddValues(h, key, src[key]), src, keys \ {key})

RECURSIVE DelAll(_, _)
\* the eight req.Header.Del calls
DelAll(h, keys) ==
    IF keys = {} THEN h
    ELSE LET key == CHOOSE k \in keys : TRUE
         IN DelAll(HeaderDel(h, key), keys \ {key})

\* req.Header once Proxy has copied the caller's headers and removed the
\* hop-by-hop ones
UpstreamHeader(src) ==
    DelAll(CopyHeaders(EmptyHeader, src, {k \in HdrKeys : src[k] # <<>>}), HopByHop)

HeadersInit ==
    /\ LimIdle /\ PipeIdle
    /\ policy = "round_robin"
    /\ nURLs = 0
    /\ hasProbe = FALSE
    /\ weights = <<>>
    /\ healthy = <<>>
    /\ probeAt = 0
    /\ upstreamCurrent = 0
    /\ conns = <<>>
    /\ wrr = NoBalancer
    /\ slots = <<>>
    /\ picked = <<>>
    /\ lastPick = NoPick
    /\ rrCalls = <<>>
    /\ lastDone = NoneDone
    /\ lastOp = NoOp
    /\ \E present \in SUBSET HdrKeys :
          /\ Cardinality(present) <= MaxHeaders
          /\ \E values \in [present -> ValueLists] :
                callerHdr = [k \in HdrKeys |-> IF k \in present THEN values[k] ELSE <<>>]
    /\ upstreamHdr = NoUpstreamRequest
    /\ HcIdle
    /\ atArrive = NoSnapshot

\* Proxy from http.NewRequestWithContext to the last req.Header.Del
BuildUpstreamRequest ==
    /\ ~upstreamHdr.built
    /\ upstreamHdr' = [built |-> TRUE, header |-> UpstreamHeader(callerHdr)]
    /\ UNCHANGED <<limVars, pipeVars, hcVars, atArrive, callerHdr, policy, nURLs, hasProbe, weights, healthy,
                   probeAt, upstreamCurrent, conns, wrr, slots, picked, lastPick,
                   rrCalls, lastDone, lastOp>>

SpecHeaders == HeadersInit /\ [][BuildUpstreamRequest]_vars

\* C14: the upstream request carries none of the eight hop-by-hop headers
\* and every other header of the caller with all its values in order.
C14_HeadersForwarded ==
    upstreamHdr.built =>
        \A k \in HdrKeys :
            upstreamHdr.header[k] = IF k \in HopByHop THEN <<>> ELSE callerHdr[k]

C14_Witness ==
    /\ upstreamHdr.built
    /\ callerHdr["Connection"] = <<"a", "b">>
    /\ callerHdr["Accept"] = <<"b", "a">>
    /\ upstreamHdr.header["Accept"] = <<"b", "a">>

\* C15: when selectUpstream yields no URL for a known group, Proxy answers
\* 503 and that call neither dispatches, nor increments a connection
\* count, nor counts an upstream metric.
C15_NoCandidate ==
    (lastPick.called /\ lastPick.url = 0) =>
        /\ lastDone.result = "nocandidate"
        /\ lastDone.status = 503
        /\ lastDone.errors = 0 /\ lastDone.statuses = 0
        /\ \A k \in 1..MaxInflight : slots[k].stage = "free"
        /\ \A u \in 1..nURLs : conns[u] = 0

C15_Witness ==
    /\ lastPick.called /\ lastPick.url = 0
    /\ policy = "least_connections"
    /\ Len(picked) = MaxSelects
    /\ lastDone.status = 503

\* C16: when the upstream dispatch returns an error, Proxy answers 502,
\* increments upstream_requests_total{status="error"} once and records no
\* status-labelled upstream metric for the request.
C16_DispatchError ==
    lastDone.result \in {"error", "cancelled"} =>
        /\ lastDone.status = 502
        /\ lastDone.errors = 1
        /\ lastDone.statuses = 0

C16_Witness ==
    /\ lastDone.result = "error"
    /\ lastDone.status = 502
    /\ \E k \in 1..MaxInflight : slots[k].stage = "dispatched"

(***************************************************************************)
(* Claims about routing and authentication in the handler chain.           *)
(***************************************************************************)
\* the chain has finished with the request and its last handler was h
EndedIn(h) == pc = "done" /\ ran # <<>> /\ ran[Len(ran)] = h

\* C17: an admitted request whose path after /v1 has no service segment is
\* answered 400 and is never handed to Router.Proxy.
C17_MalformedPath ==
    (EndedIn("proxy") /\ req.path = <<"/">>) =>
        /\ resp.status = 400
        /\ emitted["http_requests_total:200"] = 0
        /\ emitted["upstream_requests_total:error"] = 0
        /\ emitted["upstream_requests_total:status"] = 0

\* AuthMiddleware has run for the request in hand
AuthRan == "auth" \in Range(ran)

\* C18: with auth type mock every request AuthMiddleware handles, with or
\* without an Authorization header, goes on with user id "mock-user-id"
\* and is never answered 401.
C18_MockAccepts ==
    (authType = "mock" /\ AuthRan) =>
        /\ resp.status # 401
        /\ ~resp.aborted
        /\ ctxUserID = "mock-user-id"

\* C19: with auth type both and a token present, the JWT verifier is tried
\* first and the OIDC verifier only after it failed; the request is
\* authenticated iff one of them yields claims, and is answered 401 with
\* one auth_failures_total{reason=invalid_token} iff both fail.
C19_BothOrder ==
    (authType = "both" /\ AuthRan /\ req.token # "none") =>
        LET jwtOK == VerifyJWT("both", req.token)
            oidcOK == VerifyOIDC("both", req.token)
        IN /\ tried # <<>> /\ tried[1] = "jwt"
           /\ ("oidc" \in Range(tried)) <=> ~jwtOK
           /\ (ctxUserID # "") <=> (jwtOK \/ oidcOK)
           /\ (resp.status = 401) <=> (~jwtOK /\ ~oidcOK)
           /\ emitted["auth_failures_total:invalid_token"] =
                 (IF ~jwtOK /\ ~oidcOK THEN 1 ELSE 0)
           /\ emitted["auth_failures_total:missing_token"] = 0

C19_Witness ==
    /\ authType = "both"
    /\ req.token = "oidc"
    /\ tried = <<"jwt", "oidc">>
    /\ ctxUserID # ""
    /\ EndedIn("proxy")

\* C20: under auth type jwt a /v1 request without Authorization header is
\* completed with 401, one auth_failures_total{reason=missing_token}, no
\* verifier invoked and the proxy handler not run.
C20_MissingToken ==
    (authType = "jwt" /\ req.token = "none" /\ pc = "done") =>
        /\ resp.status = 401
        /\ emitted["auth_failures_total:missing_token"] = 1
        /\ tried = <<>>
        /\ "proxy" \notin Range(ran)

\* the same statement for the requests that reach AuthMiddleware
C20_WhenAuthRuns == AuthRan => C20_MissingToken

Credentialed == req.token # "none" /\ Verified(authType, req.token)

\* C22: the key RateLimitMiddleware passes to Allow is the principal's key
\* when the request carries a credential that verifies, and the client
\* address's key only when no user is known, so that the requests of one
\* user are counted under one key whatever address they come from.
C22_KeyIsPrincipal ==
    rlKey # "" =>
        rlKey = IF Credentialed
                THEN DefaultKeyFunc(ClaimsUserID(authType, req.token))
                ELSE DefaultKeyFunc("")

\* C23: when the limiter answered the request without error, the final
\* response carries X-RateLimit-Limit, X-RateLimit-Remaining and
\* X-RateLimit-Reset whatever its status, and carries Retry-After exactly
\* when the answer was a denial.
C23_HeadersKept ==
    (Decided /\ Decision # "error" /\ pc = "done" /\ req.route = "/v1") =>
        /\ {"X-RateLimit-Limit", "X-RateLimit-Remaining", "X-RateLimit-Reset"}
              \subseteq resp.hdr.names
        /\ ("Retry-After" \in resp.hdr.names) <=> (Decision = "denied")

\* the same statement for the answers the gateway writes itself
C23_GatewayAnswers == resp.status \in {400, 401, 429, 502, 503} => C23_HeadersKept

(***************************************************************************)
(* Claims about a client's consecutive calls on one key.                   *)
(***************************************************************************)
\* the first k logged calls all carried the timestamp of the first
SameSecond(k) == k <= Len(callLog) /\ \A i \in 1..k : callLog[i].ts = callLog[1].ts

\* C24: token bucket on an unused key: B consecutive Allow calls carrying
\* the same timestamp t are all allowed, the (B+1)-th carrying t is denied,
\* and one further call carrying t + ceil(1/R) is allowed.
C24_TokenBucketRoundTrip ==
    algorithm = "token_bucket" =>
        LET B == bucketSize
            n == Len(callLog)
        IN /\ \A k \in 1..Min(n, B) : SameSecond(k) => callLog[k].allowed
           /\ SameSecond(B + 1) => ~callLog[B + 1].allowed
           /\ (/\ SameSecond(B + 1)
               /\ n >= B + 2
               /\ callLog[B + 2].ts = callLog[1].ts + LuaCeilDiv(1, refillRate)) =>
                  callLog[B + 2].allowed

C24_Witness ==
    /\ algorithm = "token_bucket"
    /\ bucketSize = MaxBucket
    /\ SameSecond(bucketSize + 1)
    /\ ~callLog[bucketSize + 1].allowed
    /\ Len(callLog) = bucketSize + 2
    /\ callLog[bucketSize + 2].ts = callLog[1].ts + 1
    /\ callLog[bucketSize + 2].allowed

\* the call logged at i was denied and the next call bears out its reset_in
\* as the minimum wait: denied before ts + reset_in, allowed at ts + reset_in
WaitBorneOut(i) ==
    LET t == callLog[i].ts
        d == callLog[i].resetIn
        next == callLog[i + 1]
    IN ~callLog[i].allowed =>
          /\ (t <= next.ts /\ next.ts < t + d) => ~next.allowed
          /\ next.ts = t + d => next.allowed

\* C25: for each of the three limiters, when Allow at time t is denied with
\* reset_in = d and the next call on the key comes at t', the call is
\* allowed if t' = t + d and denied if t <= t' < t + d.
C25_ResetInIsMinimumWait ==
    \A i \in 1..(Len(callLog) - 1) : WaitBorneOut(i)

\* the same statement for the two buckets, called with non-decreasing timestamps
C25_Buckets ==
    (algorithm \in {"token_bucket", "leaky_bucket"} /\ monotone) =>
        C25_ResetInIsMinimumWait

\* W seconds or more passed on the store's clock between the calls logged
\* at i and at i + 1
IdleBefore(i) == callLog[i].at - callLog[i - 1].at >= windowSize

\* the calls logged from i to j were made in the same second
Together(i, j) ==
    \A k \in i..j : callLog[k].ts = callLog[i].ts /\ callLog[k].at = callLog[i].at

\* C26: sliding window: whatever calls were made on the key before, after W
\* seconds without a call the next Allow is allowed and reports
\* remaining = N - 1, and N consecutive calls made at that time are all allowed.
C26_IdleRestoresQuota ==
    algorithm = "sliding_window" =>
        \A i \in 2..Len(callLog) :
            IdleBefore(i) =>
                /\ callLog[i].allowed
                /\ callLog[i].remaining = bucketSize - 1
                /\ \A j \in i..Min(Len(callLog), i + bucketSize - 1) :
                       Together(i, j) => callLog[j].allowed

C26_Witness ==
    /\ algorithm = "sliding_window"
    /\ bucketSize = MaxBucket
    /\ windowSize = MaxWindowSize
    /\ Len(callLog) = 2 + bucketSize
    /\ callLog[1].allowed
    /\ callLog[2].ts > callLog[1].ts
    /\ callLog[2].remaining = 0
    /\ IdleBefore(3)
    /\ Together(3, Len(callLog))
    /\ callLog[Len(callLog)].allowed

\* increments of http_requests_total{status} made for the request in hand:
\* proxyHandler labels its one increment with c.Writer.Status() as it is
\* before Router.Proxy has written anything, which is 200
RequestsTotal(status) ==
    IF status = 200 THEN emitted["http_requests_total:200"] ELSE 0

\* C27: every /v1 request that reached its final status is recorded once in
\* http_requests_total, under the label of that status, and once in
\* http_request_duration_seconds.
C27_RequestRecorded ==
    (pc = "done" /\ req.route = "/v1") =>
        /\ RequestsTotal(resp.status) = 1
        /\ emitted["http_requests_total:200"] = 1
        /\ emitted["http_request_duration_seconds"] = 1

CandidateSet == IF hasProbe /\ RecordedUp # {} THEN RecordedUp ELSE 1..nURLs

\* the step is a least_connections selection that returns, among the
\* candidates with the smallest count, the first in configured order
LeastFirst ==
    (picked' # picked /\ policy = "least_connections" /\ lastPick'.url # 0) =>
        LET u == lastPick'.url
        IN /\ u \in CandidateSet
           /\ \A v \in CandidateSet : conns[u] <= conns[v]
           /\ \A v \in CandidateSet : conns[v] = conns[u] => u <= v

\* C29: least_connections returns a candidate with the minimal connection
\* count and, among several such, the first in the group's configured URL
\* order, without a probe and with the candidates coming from the probe.
C29_LeastConnectionsFirst == [][LeastFirst]_vars

\* the same statement for groups without a probe
C29_WithoutProbe == [][~hasProbe => LeastFirst]_vars

\* C30: when the upstream returned status and headers and the body copy
\* then failed, the client keeps the upstream's status,
\* upstream_requests_total{status="error"} was increased once for the
\* request, and under least_connections the URL's count is back to the
\* number of other calls in flight to it.
C30_MidBodyFailure ==
    lastDone.result = "midbody" =>
        /\ lastDone.status \in UpstreamStatuses
        /\ lastDone.errors = 1
        /\ policy = "least_connections" =>
               \A u \in 1..nURLs : conns[u] = Cardinality(InFlight(u))

\* the parts of the statement about the status and the connection count
C30_StatusKeptNoLeak ==
    lastDone.result = "midbody" =>
        /\ lastDone.status \in UpstreamStatuses
        /\ policy = "least_connections" =>
               \A u \in 1..nURLs : conns[u] = Cardinality(InFlight(u))

\* the lowest index that holds the greatest of the current weights
ArgMax(cur) ==
    CHOOSE i \in 1..Len(cur) :
        /\ \A j \in 1..Len(cur) : cur[j] <= cur[i]
        /\ \A j \in 1..(i - 1) : cur[j] < cur[i]

RECURSIVE Smooth(_, _)
\* k calls as the cursor rule describes them, from current = w: the URL at
\* the argmax is returned, its entry loses the total, every entry gains w[i]
Smooth(w, k) ==
    IF k = 0 THEN [current |-> w, urls |-> <<>>]
    ELSE LET before == Smooth(w, k - 1)
             chosen == ArgMax(before.current)
             total == SumSeq(w)
         IN [current |-> [i \in 1..Len(w) |->
                            before.current[i] + w[i] - (IF i = chosen THEN total ELSE 0)],
             urls |-> Append(before.urls, chosen)]

\* C34: for a WeightedRoundRobin built with one positive weight per URL the
\* current weights always sum to the sum of the base weights, and every Next
\* returns the URL at the lowest-index argmax of the current weights, lowers
\* that entry by the total weight and raises each entry by its base weight.
C34_SmoothCursor ==
    /\ SumSeq(wrr.current) = SumSeq(weights)
    /\ picked = Smooth(weights, Len(picked)).urls
    /\ wrr.current = Smooth(weights, Len(picked)).current

C34_Witness ==
    /\ weights = <<2, 2, 1>>
    /\ Len(picked) = 3
    /\ picked = <<1, 2, 3>>
    /\ \E i \in 1..nURLs : wrr.current[i] < 0

\* C35: after NewRouter the group has one weight per URL, each the configured
\* weight or 1 when that is 0, and the weighted balancer created for the
\* group starts from those same weights.
C35_OneWeightPerURL ==
    /\ Len(weights) = nURLs
    /\ \E cfgWeight \in 0..MaxCfgWeight :
          weights = [i \in 1..nURLs |-> IF cfgWeight = 0 THEN 1 ELSE cfgWeight]
    /\ policy = "weighted" => wrr.exists /\ wrr.weights = weights /\ wrr.current = weights

\* what does hold of the slice NewRouter builds: the wanted weights follow
\* one zero per URL, and the balancer is handed that slice
C35_WeightsAppended ==
    /\ Len(weights) = 2 * nURLs
    /\ \A i \in 1..nURLs : weights[i] = 0 /\ weights[nURLs + i] \in 1..MaxCfgWeight
    /\ policy = "weighted" => wrr.exists /\ wrr.weights = weights

\* C36: the expiry an Allow call sets on the record is ceil(B/R) seconds for
\* the token bucket and ceil(C/L) seconds, at least 1, for the leaky bucket.
C36_TTLSeconds ==
    /\ tbKey.exists => tbKey.ttl = <<0, LuaCeilDiv(bucketSize, refillRate)>>
    /\ lbKey.exists => lbKey.ttl = <<0, Max(1, LuaCeilDiv(bucketSize, refillRate))>>

\* C37: the stored state stays in range whatever the order of the calls and
\* of their timestamps: 0 <= tokens <= B, 0 <= level <= C, and every
\* remaining returned is >= 0.
C37_StateInRange ==
    /\ tbKey.exists => 0 <= tbKey.val /\ tbKey.val <= bucketSize
    /\ lbKey.exists => 0 <= lbKey.val /\ lbKey.val <= bucketSize
    /\ (lastAllow.called /\ lastAllow.hasInfo) => lastAllow.info.Remaining >= 0

\* a call carrying an older second than the call before it, at the edge of the range
C37_Witness ==
    /\ ~monotone
    /\ lastAllow.called /\ lastAllow.hasInfo /\ ~lastAllow.allowed
    /\ lastAllow.info.Remaining = 0
    /\ \/ algorithm = "token_bucket" /\ tbKey.exists /\ tbKey.val = 0
       \/ algorithm = "leaky_bucket" /\ lbKey.exists /\ lbKey.val = bucketSize

\* one step keeps the stored timestamp from going back, and a call whose
\* second is not later than the stored one leaves it alone and mints nothing
NoMint ==
    /\ (tbKey.exists /\ tbKey'.exists) => tbKey'.stamp >= tbKey.stamp
    /\ (lbKey.exists /\ lbKey'.exists) => lbKey'.stamp >= lbKey.stamp
    /\ (ncalls' = ncalls + 1 /\ tbKey.exists /\ lastTs' <= tbKey.stamp) =>
          tbKey'.stamp = tbKey.stamp /\ tbKey'.val <= tbKey.val
    /\ (ncalls' = ncalls + 1 /\ lbKey.exists /\ lastTs' <= lbKey.stamp) =>
          lbKey'.stamp = lbKey.stamp /\ lbKey'.val >= lbKey.val

\* C38: last_refill and last_leak never decrease, and an Allow call whose
\* timestamp is not later than the stored one adds no tokens, leaks no level
\* and leaves the stored timestamp unchanged.
C38_SkewMintsNothing == [][NoMint]_vars

\* an old second replayed after a newer one was stored
C38_Witness ==
    /\ ~monotone
    /\ lastAllow.called /\ ~lastAllow.err
    /\ \/ algorithm = "token_bucket" /\ tbKey.exists /\ lastTs < tbKey.stamp
                                     /\ tbKey.val < bucketSize
       \/ algorithm = "leaky_bucket" /\ lbKey.exists /\ lastTs < lbKey.stamp
                                     /\ lbKey.val > 0

\* a step that increments the counter of a URL finds that count minimal
\* among the URLs of the group
IncrementsLeast ==
    \A u \in 1..nURLs :
        conns'[u] = conns[u] + 1 => \A v \in 1..nURLs : conns[u] <= conns[v]

\* C39: under least_connections with concurrent Proxy calls, the URL whose
\* counter a request increments has, at that moment, a minimal count among
\* the candidates, so k concurrent requests on k idle URLs go one per URL.
C39_SelectAndIncrementAsOne ==
    [][(policy = "least_connections" /\ ~hasProbe) => IncrementsLeast]_vars

\* what does hold: the URL is minimal at the moment selectUpstream returns it
C39_LeastWhenSelected ==
    [][(policy = "least_connections" /\ ~hasProbe /\ Len(picked') = Len(picked) + 1
        /\ picked'[Len(picked')] # 0) =>
           \A v \in 1..nURLs : conns[picked'[Len(picked')]] <= conns[v]]_vars

\* every run of n consecutive results holds each of the n candidates once
EachOnce(q, S) ==
    LET n == Cardinality(S)
    IN \A i \in 1..(Len(q) - n + 1) : {q[j] : j \in i..(i + n - 1)} = S

\* C33: with a stable candidate set of n URLs, any n consecutive sequential
\* roundRobin calls return each candidate exactly once, the first call on a
\* fresh group returning the URL at index 1 mod n, without a probe and with
\* a probe whose healthy set does not change.
C33_RoundRobinEven ==
    /\ EachOnce(picked, CandidateSet)
    /\ (~hasProbe /\ Len(picked) >= 1) => picked[1] = URLList(nURLs)[(1 % nURLs) + 1]

\* the same without a probe, where the candidates are upstream.URLs in order
C33_WithoutProbe ==
    ~hasProbe =>
        /\ EachOnce(picked, 1..nURLs)
        /\ \A i \in 1..Len(picked) : picked[i] = (i % nURLs) + 1

\* the URLs GetHealthyURLs returns when the health map is h
HealthySet(h) ==
    LET up == {u \in DOMAIN h : h[u] = "up"}
    IN IF up = {} THEN DOMAIN h ELSE up

\* C31: whatever way a probe round interleaves with GetHealthyURLs calls,
\* the set a reader sees is the one the health values of the previous
\* completed round give or the one those of the next completed round give,
\* never one computed from a mix of the two.  Stated for the rounds that
\* follow a completed round.
C31_PreviousOrNextRound ==
    (doneRound.complete /\ \A u \in DOMAIN doneRound.before : doneRound.before[u] # "unset") =>
        \A view \in doneRound.seen :
            \/ view = HealthySet(doneRound.before)
            \/ view = HealthySet(doneRound.after)

\* C32: after Stop is called once, Start returns after at most one further
\* probe round, and the lock of the health map is never held while a probe
\* request is outstanding.
C32_StoppableAndNonBlocking ==
    /\ roundsAfterStop <= 1
    /\ hcAt = "probing" => mu # "writer"

\* what does hold: no probe request is outstanding under the writer's lock,
\* and Start cannot return before Stop is called
C32_ProbeOutsideLock ==
    /\ hcAt \in {"check", "probing", "probed", "select", "returned"} => mu # "writer"
    /\ hcAt = "returned" => stopC

\* the request in hand was answered by the gateway before any dispatch
RejectedBeforeDispatch ==
    /\ pc = "done"
    /\ reqNo > 0
    /\ lastDone = NoneDone
    /\ resp.status \in {400, 401, 429, 502}

\* C40: a request the gateway rejects before dispatch (401, 429, 400, or 502
\* for an unknown service name) leaves the round-robin cursor, the weighted
\* current weights and the connection counts as they were before it.
C40_RejectionLeavesSelector ==
    RejectedBeforeDispatch => Snapshot = atArrive

\* an unknown service name answered 502 after earlier requests moved the
\* cursor or the current weights
C40_Witness ==
    /\ RejectedBeforeDispatch
    /\ resp.status = 502
    /\ Len(picked) >= 1
    /\ \/ policy = "round_robin" /\ upstreamCurrent # 0
       \/ policy = "weighted" /\ wrr.current # weights
       \/ policy = "least_connections"

\* the same after a 429 of the limiter and after a 401 of the authentication
C40_WitnessDenied ==
    /\ RejectedBeforeDispatch
    /\ resp.status = 429
    /\ Len(picked) >= 1
    /\ policy = "round_robin" /\ upstreamCurrent # 0

C40_WitnessUnauthorized ==
    /\ RejectedBeforeDispatch
    /\ resp.status = 401
    /\ Len(picked) >= 1
    /\ policy = "round_robin" /\ upstreamCurrent # 0

====
